---- MODULE Spec2Model ----
(***************************************************************************)
(* A model of the preview / export controller of lottie-svg-toolbox:      *)
(* class LottieConverter (file loading, playback, frame scrubbing,        *)
(* export), the svg-utils download helpers and the recent-files list.     *)
(*                                                                         *)
(* Every handler of the class is one action.  A handler is written as an  *)
(* operator from the "world" (the record W of all mutable objects the     *)
(* handler can touch) to the world after it, so that the nested calls of  *)
(* the code (updateSliderMax dispatching an input event that runs the     *)
(* slider handler, and so on) compose the way they do in the code.        *)
(*                                                                         *)
(* The playback engine (lottie-web), the optimiser (svgo), the DOM range  *)
(* input, FileReader and the image decoder are collaborators: the model   *)
(* holds their interface state only, and their asynchronous completions   *)
(* are separate actions.                                                   *)
(***************************************************************************)
EXTENDS Integers, Sequences, FiniteSets, TLC

\* ------------------------------------------------------------------ bounds

\* setFrame(n) is tried for n in -1 .. MaxFrameArg
MaxFrameArg == 3

\* the drag distances tried are -MaxDrag .. MaxDrag, and the pan offset is
\* kept within -MaxPan .. MaxPan
MaxDrag == 1
MaxPan == 1
\* the preview area inside the fit padding, in px
AvailW == 8
AvailH == 4
\* the root font size in px (getRemInPixels)
RemPx == 2
MaxNames == 21
MaxTicks == 1
\* how often the listeners are registered on the same elements at most
MaxRegistrations == 2

\* -------------------------------------------------------- program constants

\* clearAnimation: this.elements.frameSlider.max = "100"
SliderMaxAfterClear == 100
\* recent-files.ts: MAX_ITEMS
MAX_ITEMS == 20

\* the texts of the alerts
UnsupportedMsg == "Please select a .json (Lottie) or .svg file"
InvalidJsonMsg ==
    "Invalid JSON file. Please select a valid Lottie animation file."
SavedFailedMsg == "Failed to load saved file."
NoSvgMsg == "No SVG found. Please ensure the animation is loaded."
ExportErrorMsg == "Error generating SVG. Please try again."

\* ------------------------------------------------------------ small helpers

Min(a, b) == IF a < b THEN a ELSE b
Max(a, b) == IF a > b THEN a ELSE b

\* String.prototype.toLowerCase on the extensions the model uses
ToLower(ext) ==
    CASE ext = "JSON" -> "json"
      [] ext = "SVG" -> "svg"
      [] OTHER -> ext

\* Math.round on a value given in half units (h = 2x): round half up
RoundHalf(h) == (h + 1) \div 2

\* non-negative fractions <<n, d>> in lowest terms, for the scales
RECURSIVE GCD(_, _)
GCD(a, b) == IF b = 0 THEN a ELSE GCD(b, a % b)
Frac(n, d) == LET g == GCD(n, d) IN <<n \div g, d \div g>>
FracLeq(p, q) == p[1] * q[2] <= q[1] * p[2]
FracMin(p, q) == IF FracLeq(p, q) THEN p ELSE q
FracMax(p, q) == IF FracLeq(p, q) THEN q ELSE p
\* Math.round of a fraction
RoundFrac(p) == (2 * p[1] + p[2]) \div (2 * p[2])

\* signed fractions <<n, d>>, d > 0, in lowest terms, for the pan offset
Abs(n) == IF n < 0 THEN -n ELSE n
QNorm(n, d) == LET g == GCD(Abs(n), d) IN <<n \div g, d \div g>>
QInt(i) == <<i, 1>>
QAdd(p, q) == QNorm(p[1] * q[2] + q[1] * p[2], p[2] * q[2])
QSub(p, q) == QNorm(p[1] * q[2] - q[1] * p[2], p[2] * q[2])
QMul(p, q) == QNorm(p[1] * q[1], p[2] * q[2])
QLeq(p, q) == p[1] * q[2] <= q[1] * p[2]
\* x ** k for k >= 0
RECURSIVE Pow(_, _)
Pow(x, k) == IF k = 0 THEN 1 ELSE x * Pow(x, k - 1)

\* ------------------------------------------------------------------- files

\* A file the user can drop: its name (base and extension as typed), its byte
\* size and what its text is.
\*   kind "lottie"   JSON of an animation: T frames (op - ip), w, h, fr
\*                   (0 stands for "the key is absent")
\*   kind "badjson"  text JSON.parse throws on
\*   kind "nulljson" the JSON text  null  (parses to a falsy value)
\*   kind "svg"      markup with a root svg element: viewBox w x h (0 = no
\*                   viewBox), width/height attributes aw, ah (0 = absent)
\*   kind "text"     text without a root svg element
File(base, ext, size, kind, T, w, h, fr, aw, ah) ==
    [base |-> base, ext |-> ext, size |-> size, kind |-> kind, T |-> T,
     w |-> w, h |-> h, fr |-> fr, aw |-> aw, ah |-> ah]

fA    == File("a", "json", 1, "lottie", 3, 4, 2, 2, 0, 0)
fB    == File("b", "JSON", 2, "lottie", 2, 0, 0, 0, 0, 0)
fBad  == File("c", "json", 3, "badjson", 0, 0, 0, 0, 0, 0)
fNull == File("z", "json", 4, "nulljson", 0, 0, 0, 0, 0, 0)
fS    == File("s", "svg", 5, "svg", 0, 3, 1, 0, 0, 0)
fP    == File("p", "SVG", 6, "svg", 0, 0, 0, 0, 0, 0)
fN    == File("n", "svg", 7, "text", 0, 0, 0, 0, 0, 0)
fT    == File("t", "txt", 8, "text", 0, 0, 0, 0, 0, 0)

Files == {fA, fB, fBad, fNull, fS, fP, fN, fT}

\* null for state.animationData
NullData == File("", "", 0, "none", 0, 0, 0, 0, 0, 0)

FullName(f) == [base |-> f.base, ext |-> f.ext]
NoName == [base |-> "", ext |-> ""]
\* undefined / null for a number (fileSizeBytes, currentFileSize, fps, width)
Undef == 0

\* ------------------------------------------------------------------- state

VARIABLES
    state,      \* LottieConverter.state (LottieConverterState), with the engine
                \* instance it references in state.animationInstance
    tracked,    \* currentFileName / currentFileSize
    pan,        \* panOffsetX / panOffsetY, isPanning
    hasInteractedSinceLoad,
    slider,     \* elements.frameSlider: the range input's value and max
    spans,      \* elements.currentFrameSpan / totalFramesSpan text
    container,  \* elements.lottieContainer: what its innerHTML holds
    recent,     \* localStorage[RECENT_KEY]: the recent-files list
    pending,    \* FileReader reads started by handleFile and not yet loaded
    raster,     \* raster exports waiting for the image decode
    clock,      \* Date.now()
    stale,      \* whether the engine delivers notifications of destroyed
                \* instances, and what those still have outstanding
    out,        \* what the last handler showed the user: alert and download
    layout,     \* the preview area left for the visual inside the padding
    files,      \* the files the user has at hand
    prefs,      \* localStorage under PREFIX: the stored text of each key (a
                \* set, empty when getItem gives null) and how the store
                \* answers: "ok", "full" (setItem throws), "denied" (every
                \* access throws)
    frameOutlineOn, \* the private field frameOutlineOn
    buttons,    \* elements.playBtn.disabled / elements.downloadBtn.disabled
    label,      \* the percent shown by the trigger of the zoom menu
    instances,  \* how many engine instances lottie.loadAnimation has made that
                \* destroy() has not been called on
    timers,     \* the deferred calls not yet run (setTimeout,
                \* requestAnimationFrame): "initializeLabel" is the refresh of
                \* the zoom label; several pending ones count as one
    registrations \* how many times setupEventListeners has added its listeners
                \* to the elements of the page

vars == <<state, tracked, pan, hasInteractedSinceLoad, slider, spans, container,
          recent, pending, raster, clock, stale, out, layout, files, prefs,
          frameOutlineOn, buttons, label, timers, instances, registrations>>

\* null for state.animationInstance
NoInst == [live |-> FALSE, file |-> "", T |-> 0, raw |-> 0, playing |-> FALSE,
           loop |-> FALSE, loaded |-> FALSE, markup |-> FALSE]

\* lottie.loadAnimation({container, renderer: "svg", loop, autoplay: false,
\* animationData}): a fresh instance at frame 0, not playing; `loaded` is set
\* once its DOMLoaded notification has been delivered, `markup` once its svg
\* element is in the container; `raw` is currentFrame in half frames
NewInst(data, loop, markup) ==
    [live |-> TRUE, file |-> data.base, T |-> data.T, raw |-> 0,
     playing |-> FALSE, loop |-> loop, loaded |-> FALSE, markup |-> markup]

\* the inline style applyZoom puts on the svg: left/top offsets (without the
\* constant padding shift), width/height in px (0 for auto), the scale of the
\* transform as a fraction <<n, d>>
NoStyle == [x |-> QInt(0), y |-> QInt(0), w |-> 0, h |-> 0,
            scale |-> <<0, 1>>]

\* no rect[data-frame-overlay="true"] in the svg; of one that is there: its
\* width and height attributes and its stroke-width as a fraction (<<0, 1>>
\* while the attribute is not set)
NoRect == [on |-> FALSE, w |-> 0, h |-> 0, stroke |-> <<0, 1>>]

\* the container: what its innerHTML holds, of an svg in it the viewBox, the
\* width/height attributes, the inline style, the overlay rect and whether
\* style[data-ignore-opacity="true"] is in it; the container's visibility and
\* whether a MutationObserver of waitForSvgAndReveal watches it
EmptyBox == [kind |-> "empty", src |-> "", vbw |-> 0, vbh |-> 0,
             aw |-> 0, ah |-> 0, style |-> NoStyle,
             rect |-> NoRect, opacityStyle |-> FALSE,
             visible |-> TRUE, watching |-> FALSE]

\* a file offered as download: its name (base, frame or -1 for none, ext),
\* the asset and frame it shows, its width/height (attributes of a vector
\* document, pixels of a raster image) and viewBox, the raster scale in
\* quarters, and what produced the bytes
NoDl == [base |-> "", frame |-> -1, ext |-> "", src |-> "", raw |-> 0,
         w |-> 0, h |-> 0, vbw |-> 0, vbh |-> 0, scale |-> 0, via |-> "",
         overlay |-> FALSE, opacityStyle |-> FALSE, styled |-> FALSE]
\* what a handler showed the user and, in the order made, its calls of the
\* engine that make or end an instance ("loadAnimation", "destroy")
NoOut == [alert |-> "", dl |-> NoDl, calls |-> <<>>]

\* ------------------------------------------------------- preferences.ts

\* the keys of PreferenceKeys the store is tried with, those of them whose
\* default is a boolean, and the values the enumerated ones allow
PrefKeys == {"loop", "ignore-opacity", "show-frame", "export-format"}
BooleanKeys == {"loop", "ignore-opacity", "show-frame"}
ExportFormats == {"svg", "png", "jpeg"}

\* DEFAULT_PREFERENCES[key]
DEFAULT_PREFERENCES(key) ==
    CASE key = "loop" -> TRUE
      [] key = "ignore-opacity" -> FALSE
      [] key = "show-frame" -> FALSE
      [] key = "export-format" -> "svg"

\* String(value) of a boolean
StringOfBoolean(b) == IF b THEN "true" ELSE "false"

\* the cards whose collapse state is kept, and the key setCardCollapsed
\* writes for each: `card-${cardId}-collapsed`, without PREFIX
Cards == {"preview", "export"}
CardKey(cardId) ==
    CASE cardId = "preview" -> "card-preview-collapsed"
      [] cardId = "export" -> "card-export-collapsed"

\* the keys of localStorage the page reads or writes: PREFIX + key for the
\* keys of PreferenceKeys ("card-collapsed" among them), and the card keys
StoreKeys == PrefKeys \cup {"card-collapsed"} \cup {CardKey(c) : c \in Cards}

\* a store nothing was written to
NoItems == [key \in StoreKeys |-> {}]
EmptyStore == [items |-> NoItems, mode |-> "ok"]

\* getPreference(key): the default when getItem throws or gives null, else
\* stored === "true" for a boolean key and the stored text for the others
getPreference(store, key) ==
    IF store.mode = "denied" \/ store.items[key] = {}
    THEN DEFAULT_PREFERENCES(key)
    ELSE LET stored == CHOOSE text \in store.items[key] : TRUE
         IN  IF key \in BooleanKeys THEN stored = "true" ELSE stored

\* setPreference(key, value), text being String(value): a throwing setItem
\* is caught
setPreference(store, key, text) ==
    IF store.mode = "ok" THEN [store EXCEPT !.items[key] = {text}] ELSE store

\* getCardCollapsed(cardId): getPreference("card-collapsed", false), the card
\* id not being part of the key read
getCardCollapsed(store, cardId) ==
    IF store.mode = "denied" \/ store.items["card-collapsed"] = {}
    THEN FALSE
    ELSE (CHOOSE text \in store.items["card-collapsed"] : TRUE) = "true"

\* setCardCollapsed(cardId, collapsed): setItem under the card's own key, a
\* throwing setItem caught
setCardCollapsed(store, cardId, collapsed) ==
    IF store.mode = "ok"
    THEN [store EXCEPT !.items[CardKey(cardId)] = {StringOfBoolean(collapsed)}]
    ELSE store

\* the world a handler runs in
W == [state |-> state, tracked |-> tracked, pan |-> pan, hi |-> hasInteractedSinceLoad,
      slider |-> slider, spans |-> spans, box |-> container,
      recent |-> recent, pending |-> pending, raster |-> raster,
      now |-> clock, stale |-> stale, out |-> NoOut, prefs |-> prefs,
      frameOutlineOn |-> frameOutlineOn, buttons |-> buttons, label |-> label,
      timers |-> timers, layout |-> layout, instances |-> instances,
      registrations |-> registrations]

Commit(w) ==
    /\ state' = w.state
    /\ tracked' = w.tracked
    /\ pan' = w.pan
    /\ hasInteractedSinceLoad' = w.hi
    /\ slider' = w.slider
    /\ spans' = w.spans
    /\ container' = w.box
    /\ recent' = w.recent
    /\ pending' = w.pending
    /\ raster' = w.raster
    /\ clock' = w.now
    /\ stale' = w.stale
    /\ out' = w.out
    /\ prefs' = w.prefs
    /\ frameOutlineOn' = w.frameOutlineOn
    /\ buttons' = w.buttons
    /\ label' = w.label
    /\ timers' = w.timers
    /\ instances' = w.instances
    /\ layout' = w.layout
    /\ registrations' = w.registrations
    /\ UNCHANGED files

\* the state field as declared, and state.ignoreOpacity as
\* setupIgnoreOpacityToggle restores it from the store
InitialState(store) ==
    [animationInstance |-> NoInst, animationData |-> NullData,
     totalFrames |-> 0, currentFrame |-> 0,
     originalFilename |-> "", originalFileExt |-> "",
     fileSizeBytes |-> Undef, isPlaying |-> FALSE,
     isLooping |-> TRUE, fps |-> Undef, width |-> Undef,
     height |-> Undef, zoomMode |-> "fit", zoomPercent |-> 100,
     ignoreOpacity |-> getPreference(store, "ignore-opacity")]

\* the page as the constructor leaves it over the store it finds
BootOver(store) ==
    /\ state = InitialState(store)
    /\ prefs = store
    /\ frameOutlineOn = getPreference(store, "show-frame")
    /\ buttons = [playBtn |-> [disabled |-> TRUE],
                  downloadBtn |-> [disabled |-> TRUE]]
    /\ label = 100
    /\ timers = {"initializeLabel"}
    /\ instances = 0
    /\ registrations = 1
    /\ tracked = [name |-> NoName, size |-> Undef]
    /\ pan = [x |-> QInt(0), y |-> QInt(0), isPanning |-> FALSE]
    /\ hasInteractedSinceLoad = FALSE
    /\ slider = [value |-> 0, max |-> SliderMaxAfterClear]
    /\ spans = [current |-> 0, total |-> 0]
    /\ container = EmptyBox
    /\ recent = <<>>
    /\ pending = {}
    /\ raster = {}
    /\ clock = 0
    /\ stale \in [late : BOOLEAN, listeners : {FALSE}, domLoaded : {FALSE}]
    /\ out = NoOut
    /\ layout = [w |-> AvailW, h |-> AvailH]

\* the page opened for the first time: nothing is stored
Boot == BootOver(EmptyStore)

\* the constructor run again, the page being loaded anew: localStorage is
\* what stays
constructor(w) ==
    [w EXCEPT
       !.state = InitialState(w.prefs),
       !.frameOutlineOn = getPreference(w.prefs, "show-frame"),
       !.buttons = [playBtn |-> [disabled |-> TRUE],
                    downloadBtn |-> [disabled |-> TRUE]],
       !.label = 100,
       !.timers = {"initializeLabel"},
       !.instances = 0,
       !.registrations = 1,
       !.tracked = [name |-> NoName, size |-> Undef],
       !.pan = [x |-> QInt(0), y |-> QInt(0), isPanning |-> FALSE],
       !.hi = FALSE,
       !.slider = [value |-> 0, max |-> SliderMaxAfterClear],
       !.spans = [current |-> 0, total |-> 0],
       !.box = EmptyBox,
       !.pending = {},
       !.raster = {},
       !.stale = [@ EXCEPT !.listeners = FALSE, !.domLoaded = FALSE]]

\* resetAllPreferences(): removeItem for every key, a throwing store caught
resetAllPreferences(store) ==
    IF store.mode = "denied" THEN store ELSE [store EXCEPT !.items = NoItems]

\* ------------------------------------------------------- recent-files.ts

\* getRecentFiles(): the stored list, [] when localStorage throws
getRecentFiles(store, items) == IF store.mode = "denied" THEN <<>> ELSE items

\* localStorage.setItem(RECENT_KEY, JSON.stringify(next)) inside the callers'
\* try/catch: a store that rejects the write keeps what it held
setItem(store, items, next) == IF store.mode = "ok" THEN next ELSE items

\* saveRecentFile without the cut to MAX_ITEMS
saveRecentFileUncut(items, name, size, now) ==
    LET withoutDupes ==
            SelectSeq(items, LAMBDA it : ~(it.name = name /\ it.size = size))
    IN  <<[name |-> name, size |-> size, lastOpened |-> now]>> \o withoutDupes

\* saveRecentFile(name, size, content): drop the entries with the same
\* (name, size), put the new entry first, keep the first MAX_ITEMS
saveRecentFile(items, name, size, now) ==
    LET withoutDupes ==
            SelectSeq(items, LAMBDA it : ~(it.name = name /\ it.size = size))
        next == <<[name |-> name, size |-> size, lastOpened |-> now]>>
                    \o withoutDupes
    IN  SubSeq(next, 1, Min(Len(next), MAX_ITEMS))

\* touchRecent(name, size): lastOpened := now on the matching entries, in place
touchRecent(items, name, size, now) ==
    [i \in DOMAIN items |->
        IF items[i].name = name /\ items[i].size = size
        THEN [items[i] EXCEPT !.lastOpened = now]
        ELSE items[i]]

\* ------------------------------------------------- the DOM range input

\* value sanitization of <input type=range min=0>: below min gives min, above
\* max gives max (when max is not below min)
Sanitize(v, max) ==
    IF v < 0 THEN 0 ELSE IF max >= 0 /\ v > max THEN max ELSE v

SetSliderValue(sl, v) == [sl EXCEPT !.value = Sanitize(v, sl.max)]
SetSliderMax(sl, m) == [value |-> Sanitize(sl.value, m), max |-> m]

\* ------------------------------------------------- the playback engine

\* instance.goToAndStop(frame, true): the engine takes the frame as given,
\* renders it and stops playback
goToAndStop(inst, frame) ==
    [inst EXCEPT !.raw = 2 * frame, !.playing = FALSE]

\* instance.destroy(): the instance is gone; remember what it still had
\* outstanding (its listeners, or its DOMLoaded not yet delivered)
Destroyed(st, inst) ==
    IF ~st.late THEN st
    ELSE [st EXCEPT !.listeners = @ \/ inst.loaded,
                    !.domLoaded = @ \/ ~inst.loaded]

\* Math.round(instance.currentFrame || 0)
RoundedFrame(inst) == RoundHalf(inst.raw)

\* ------------------------------------------------- class LottieConverter

\* getFitPaddingPx() is folded into layout: availW x availH is what is left
\* of the container's rect inside the padding

\* fitToContainer(svgElement)
fitToContainer(w) ==
    LET width == IF w.state.width # 0 THEN w.state.width ELSE w.box.vbw
        height == IF w.state.height # 0 THEN w.state.height ELSE w.box.vbh
        availW == Max(1, w.layout.w)
        availH == Max(1, w.layout.h)
    IN  [x |-> w.pan.x, y |-> w.pan.y, w |-> width, h |-> height,
         scale |-> IF width # 0 /\ height # 0
                   THEN FracMin(Frac(availW, width), Frac(availH, height))
                   ELSE <<1, 1>>]

\* setFixedZoom(svgElement, percent)
setFixedZoom(w, percent) ==
    LET width == IF w.state.width # 0 THEN w.state.width ELSE w.box.vbw
        height == IF w.state.height # 0 THEN w.state.height ELSE w.box.vbh
    IN  [x |-> w.pan.x, y |-> w.pan.y, w |-> width, h |-> height,
         scale |-> Frac(Max(2, Min(3200, percent)), 100)]

\* computeFitScale(), <<0, 1>> for null
computeFitScale(w) ==
    LET width == w.state.width
        height == w.state.height
        availW == Max(1, w.layout.w)
        availH == Max(1, w.layout.h)
    IN  IF width = 0 \/ height = 0 \/ w.layout.w = 0 \/ w.layout.h = 0
        THEN <<0, 1>>
        ELSE FracMin(Frac(availW, width), Frac(availH, height))

\* getCurrentScale()
getCurrentScale(w) ==
    IF w.state.zoomMode = "fixed"
    THEN LET p == IF w.state.zoomPercent # 0 THEN w.state.zoomPercent ELSE 100
         IN  FracMax(<<1, 50>>, FracMin(<<32, 1>>, Frac(p, 100)))
    ELSE IF computeFitScale(w) # <<0, 1>> THEN computeFitScale(w) ELSE <<1, 1>>

\* updateFrameOutlineAppearance(): the stroke of the overlay rect is 2 px
\* on screen, 2 / scale in the svg's units
updateFrameOutlineAppearance(w) ==
    IF ~w.frameOutlineOn \/ w.box.kind # "svg" \/ ~w.box.rect.on THEN w
    ELSE LET scale == getCurrentScale(w)
         IN  [w EXCEPT !.box.rect.stroke = Frac(2 * scale[2], scale[1])]

\* applyFrameOutline(): one overlay rect over state.width x state.height
\* while the frame outline is on, none while it is off
applyFrameOutline(w) ==
    LET width == IF w.state.width # 0 THEN w.state.width ELSE w.box.vbw
        height == IF w.state.height # 0 THEN w.state.height ELSE w.box.vbh
    IN  IF w.box.kind # "svg" THEN w
        ELSE IF ~w.frameOutlineOn THEN [w EXCEPT !.box.rect = NoRect]
        ELSE IF width = 0 \/ height = 0 THEN w
        ELSE updateFrameOutlineAppearance(
                [w EXCEPT !.box.rect.on = TRUE, !.box.rect.w = width,
                          !.box.rect.h = height])

\* applyOpacityOverride(): the style element is in the svg exactly while
\* state.ignoreOpacity is set
applyOpacityOverride(w) ==
    IF w.box.kind # "svg" THEN w
    ELSE [w EXCEPT !.box.opacityStyle = w.state.ignoreOpacity]

\* updateTriggerLabel(percent)
updateTriggerLabel(w, percent) == [w EXCEPT !.label = percent]

\* applyZoom(): restyles the svg in the container, if there is one
applyZoom(w) ==
    IF w.box.kind # "svg" THEN w
    ELSE IF w.state.zoomMode = "fit"
    THEN updateFrameOutlineAppearance([w EXCEPT !.box.style = fitToContainer(w)])
    ELSE updateFrameOutlineAppearance(
            [w EXCEPT !.box.style =
                setFixedZoom(w, IF w.state.zoomPercent # 0
                                THEN w.state.zoomPercent ELSE 100)])

\* computeFitPercent(), rounded as its callers round it (0 for null)
computeFitPercent(w) ==
    LET width == w.state.width
        height == w.state.height
        availW == Max(1, w.layout.w)
        availH == Max(1, w.layout.h)
        scale == FracMin(Frac(availW, width), Frac(availH, height))
        clamped == FracMax(<<1, 50>>, FracMin(<<32, 1>>, scale))
    IN  IF width = 0 \/ height = 0 \/ w.layout.w = 0 \/ w.layout.h = 0 THEN 0
        ELSE RoundFrac(<<100 * clamped[1], clamped[2]>>)

\* touchRecentIfNeeded() without the hasInteractedSinceLoad test
touchRecentEveryTime(w) ==
    LET ext == IF w.state.originalFileExt = "" THEN "json"
               ELSE w.state.originalFileExt
        name == [base |-> w.state.originalFilename, ext |-> ext]
        size == w.state.fileSizeBytes
    IN  IF w.state.originalFilename # "" /\ size # Undef
        THEN [w EXCEPT !.recent =
                            setItem(w.prefs, @,
                                touchRecent(getRecentFiles(w.prefs, @),
                                            name, size, w.now)),
                       !.hi = TRUE]
        ELSE w

\* touchRecentIfNeeded()
touchRecentIfNeeded(w) ==
    IF w.hi THEN w
    ELSE LET ext == IF w.state.originalFileExt = "" THEN "json"
                    ELSE w.state.originalFileExt
             name == [base |-> w.state.originalFilename, ext |-> ext]
             size == w.state.fileSizeBytes
         IN  IF w.state.originalFilename # "" /\ size # Undef
             THEN [w EXCEPT !.recent =
                                setItem(w.prefs, @,
                                    touchRecent(getRecentFiles(w.prefs, @),
                                                name, size, w.now)),
                            !.hi = TRUE]
             ELSE w

\* the listener as it would be with a throwing setItem left uncaught: the
\* handler ends at setPreference
onIgnoreOpacityChangeUncaught(w, checked) ==
    IF w.prefs.mode = "ok"
    THEN applyOpacityOverride(
            [w EXCEPT !.state.ignoreOpacity = checked,
                      !.prefs = setPreference(@, "ignore-opacity",
                                              StringOfBoolean(checked))])
    ELSE [w EXCEPT !.state.ignoreOpacity = checked]

\* the "starwind-switch:change" listener of setupIgnoreOpacityToggle
onIgnoreOpacityChange(w, checked) ==
    applyOpacityOverride(
        [w EXCEPT !.state.ignoreOpacity = checked,
                  !.prefs = setPreference(@, "ignore-opacity",
                                          StringOfBoolean(checked))])

\* the "starwind-switch:change" listener of setupFrameToggle
onFrameToggleChange(w, checked) ==
    applyFrameOutline(
        [w EXCEPT !.frameOutlineOn = checked,
                  !.prefs = setPreference(@, "show-frame",
                                          StringOfBoolean(checked))])

\* the "input" listener of the frame slider (setupFrameSlider)
sliderInput(w) ==
    LET frame == w.slider.value
        w1 == [w EXCEPT !.state.currentFrame = frame,
                        !.spans.current = frame]
        w2 == IF w1.state.animationInstance.live
              THEN applyZoom([w1 EXCEPT !.state.animationInstance =
                                            goToAndStop(@, frame)])
              ELSE w1
    IN  touchRecentIfNeeded(w2)

\* updateSliderMax(maxValue): sets max and dispatches "input"
updateSliderMax(w, maxValue) ==
    sliderInput([w EXCEPT !.slider = SetSliderMax(@, maxValue)])

\* setFrame(frame)
setFrame(w, frame) ==
    IF ~w.state.animationInstance.live THEN w
    ELSE LET clampedFrame == Max(0, Min(frame, w.state.totalFrames))
             w1 == applyZoom(
                     [w EXCEPT !.state.currentFrame = clampedFrame,
                               !.state.animationInstance =
                                    goToAndStop(@, clampedFrame)])
             w2 == [w1 EXCEPT !.spans.current = clampedFrame,
                              !.slider = SetSliderValue(@, clampedFrame)]
         IN  sliderInput(w2)

\* play() without the test for an instance
playUnguarded(w) ==
    LET i2 == [w.state.animationInstance EXCEPT
                 !.loop = w.state.isLooping, !.playing = TRUE]
    IN  touchRecentIfNeeded(
            [w EXCEPT !.state.animationInstance = i2,
                      !.state.isPlaying = TRUE])

\* play() without the restart from the last frame
playWithoutRestart(w) ==
    IF ~w.state.animationInstance.live THEN w
    ELSE LET i2 == [w.state.animationInstance EXCEPT
                      !.loop = w.state.isLooping, !.playing = TRUE]
         IN  touchRecentIfNeeded(
                [w EXCEPT !.state.animationInstance = i2,
                          !.state.isPlaying = TRUE])

\* play()
play(w) ==
    IF ~w.state.animationInstance.live THEN w
    ELSE LET rewind == ~w.state.isLooping
                        /\ w.state.currentFrame >= w.state.totalFrames
             i1 == IF rewind THEN goToAndStop(w.state.animationInstance, 0)
                   ELSE w.state.animationInstance
             i2 == [i1 EXCEPT !.loop = w.state.isLooping, !.playing = TRUE]
         IN  touchRecentIfNeeded(
                [w EXCEPT !.state.animationInstance = i2,
                          !.state.isPlaying = TRUE])

\* pause()
pause(w) ==
    IF ~w.state.animationInstance.live THEN w
    ELSE [w EXCEPT !.state.animationInstance.playing = FALSE,
                   !.state.isPlaying = FALSE]

\* the "click" listener of the play button (setupPlaybackControls)
onPlayClick(w) ==
    IF ~w.state.animationInstance.live THEN w
    ELSE IF w.state.isPlaying THEN pause(w) ELSE play(w)

\* setLoop(loop) updating the local state only
setLoopLocalOnly(w, loop) ==
    [w EXCEPT !.state.isLooping = loop]

\* setLoop(loop)
setLoop(w, loop) ==
    IF w.state.animationInstance.live
    THEN [w EXCEPT !.state.isLooping = loop,
                   !.state.animationInstance.loop = loop]
    ELSE [w EXCEPT !.state.isLooping = loop]

\* the svg element lottie-web renders for `data` (viewBox 0 0 w h)
LottieBox(data, box) ==
    [kind |-> "svg", src |-> data.base, vbw |-> data.w, vbh |-> data.h,
     aw |-> data.w, ah |-> data.h, style |-> NoStyle,
     rect |-> NoRect, opacityStyle |-> FALSE,
     visible |-> box.visible, watching |-> box.watching]

\* reveal showing the svg with the zoom applied and no overlay
revealWithoutOverlays(w) == [applyZoom(w) EXCEPT !.box.visible = TRUE]

\* reveal (waitForSvgAndReveal): zoom, overlays, then visibility
reveal(w) ==
    [applyOpacityOverride(
        updateFrameOutlineAppearance(applyFrameOutline(applyZoom(w))))
     EXCEPT !.box.visible = TRUE]

\* the MutationObserver callback of waitForSvgAndReveal, run once the
\* handler that changed the container is through: with an svg in the
\* container it reveals and disconnects
observerCallback(w) ==
    IF w.box.watching /\ w.box.kind = "svg"
    THEN [reveal(w) EXCEPT !.box.watching = FALSE]
    ELSE w

\* waitForSvgAndReveal revealing only what is there already, never watching
revealIfPresent(w) == IF w.box.kind = "svg" THEN reveal(w) ELSE w

\* waitForSvgAndReveal(): reveal now if the svg is there, else watch for it
waitForSvgAndReveal(w) ==
    IF w.box.kind = "svg"
    THEN reveal(w)
    ELSE [w EXCEPT !.box.watching = TRUE]

\* loadLottieAnimation() without the destroy() of the previous instance
loadLottieAnimationKeepingOld(w, markup) ==
    IF w.state.animationData = NullData THEN w
    ELSE LET cleared == [EmptyBox EXCEPT !.visible = FALSE,
                                         !.watching = w.box.watching]
         IN  observerCallback(
               [w EXCEPT
                  !.instances = @ + 1,
                  !.out.calls = @ \o <<"loadAnimation">>,
                  !.box = IF markup
                          THEN LottieBox(w.state.animationData, cleared)
                          ELSE cleared,
                  !.state.animationInstance =
                      NewInst(w.state.animationData, w.state.isLooping, markup)])

\* loadLottieAnimation(); `markup` says whether the engine has put its svg
\* into the container by the time loadAnimation returns
loadLottieAnimation(w, markup) ==
    IF w.state.animationData = NullData THEN w
    ELSE LET old == w.state.animationInstance
             cleared == [EmptyBox EXCEPT !.visible = FALSE,
                                         !.watching = w.box.watching]
         IN  observerCallback(
               [w EXCEPT
                  !.stale = IF old.live THEN Destroyed(@, old) ELSE @,
                  !.instances = (IF old.live THEN @ - 1 ELSE @) + 1,
                  !.out.calls = @ \o (IF old.live THEN <<"destroy">> ELSE <<>>)
                                  \o <<"loadAnimation">>,
                  !.box = IF markup
                          THEN LottieBox(w.state.animationData, cleared)
                          ELSE cleared,
                  !.state.animationInstance =
                      NewInst(w.state.animationData, w.state.isLooping, markup)])

\* the DOMLoaded listener added by loadLottieAnimation
onDOMLoaded(w) ==
    IF ~w.state.animationInstance.live THEN w
    ELSE LET data == w.state.animationData
             total == w.state.animationInstance.T - 1
             w1 == [w EXCEPT
                      !.pan.x = QInt(0), !.pan.y = QInt(0),
                      !.state.totalFrames = total,
                      !.state.fps = IF data.fr # 0 THEN data.fr ELSE @,
                      !.state.width = IF data.w # 0 THEN data.w ELSE @,
                      !.state.height = IF data.h # 0 THEN data.h ELSE @,
                      !.state.currentFrame = 0,
                      !.slider = SetSliderValue(@, 0)]
             w2 == [updateSliderMax(w1, total) EXCEPT !.spans.total = total]
             w3 == waitForSvgAndReveal(applyZoom(w2))
             w4 == applyZoom([w3 EXCEPT !.state.animationInstance =
                                            goToAndStop(@, 0)])
         IN  [w4 EXCEPT !.spans.current = w4.state.currentFrame,
                        !.state.animationInstance.loaded = TRUE,
                        !.state.animationInstance.loop = w4.state.isLooping,
                        !.state.isPlaying = FALSE,
                        !.timers = @ \cup {"initializeLabel"},
                        !.buttons.downloadBtn.disabled = FALSE,
                        !.buttons.playBtn.disabled = FALSE]

\* the enterFrame listener added in the DOMLoaded listener
onEnterFrame(w) ==
    IF ~w.state.animationInstance.live THEN w
    ELSE LET frame == RoundedFrame(w.state.animationInstance)
         IN  [w EXCEPT !.state.currentFrame = frame,
                       !.spans.current = frame,
                       !.slider = SetSliderValue(@, frame)]

\* the complete listener added in the DOMLoaded listener
onComplete(w) ==
    IF ~w.state.isLooping THEN [w EXCEPT !.state.isPlaying = FALSE] ELSE w

\* loadStaticSVG(svgString, filenameForDetails)
loadStaticSVG(w, f) ==
    LET old == w.state.animationInstance
        w1 == [w EXCEPT
                 !.stale = IF old.live THEN Destroyed(@, old) ELSE @,
                 !.instances = IF old.live THEN @ - 1 ELSE @,
                 !.out.calls = IF old.live THEN Append(@, "destroy") ELSE @,
                 !.state.animationInstance = NoInst,
                 !.box = [kind |-> IF f.kind = "svg" THEN "svg" ELSE "text",
                          src |-> f.base, vbw |-> f.w, vbh |-> f.h,
                          aw |-> f.aw, ah |-> f.ah, style |-> NoStyle,
                          rect |-> NoRect, opacityStyle |-> FALSE,
                          visible |-> FALSE,
                          watching |-> IF f.kind = "svg" THEN FALSE
                                       ELSE w.box.watching]]
        useAttr == (f.w = 0 \/ f.h = 0) /\ f.aw # 0 /\ f.ah # 0
        width == IF useAttr THEN f.aw ELSE f.w
        height == IF useAttr THEN f.ah ELSE f.h
    IN  IF f.kind # "svg" THEN w1
        ELSE LET w2 == [w1 EXCEPT
                          !.state.width = IF width # 0 THEN width ELSE @,
                          !.state.height = IF height # 0 THEN height ELSE @,
                          !.state.totalFrames = 0,
                          !.state.currentFrame = 0,
                          !.state.fps = Undef,
                          !.state.isPlaying = FALSE,
                          !.slider = [value |-> 0, max |-> 0],
                          !.spans = [current |-> 0, total |-> 0]]
                 w3 == waitForSvgAndReveal(applyZoom(w2))
             IN  [w3 EXCEPT !.buttons.downloadBtn.disabled = FALSE,
                            !.buttons.playBtn.disabled = FALSE]

\* handleFile as it would be with the file name recorded before the
\* extension is looked at (C1 has to tell the two apart)
handleFileRecordingFirst(w, f) ==
    LET lower == ToLower(f.ext)
        recorded == [w EXCEPT
                       !.state.originalFilename = f.base,
                       !.state.fileSizeBytes = f.size,
                       !.tracked = [name |-> FullName(f), size |-> f.size]]
    IN  IF lower # "json" /\ lower # "svg"
        THEN [recorded EXCEPT !.out.alert = UnsupportedMsg]
        ELSE [recorded EXCEPT
                !.state.originalFileExt = lower,
                !.pending = @ \cup {f}]

\* handleFile(file): the synchronous part, up to reader.readAsText(file)
handleFile(w, f) ==
    LET lower == ToLower(f.ext)
        isJson == lower = "json"
        isSvg == lower = "svg"
    IN  IF ~isJson /\ ~isSvg
        THEN [w EXCEPT !.out.alert = UnsupportedMsg]
        ELSE [w EXCEPT
                !.state.originalFilename = f.base,
                !.state.originalFileExt = IF isJson THEN "json" ELSE "svg",
                !.state.fileSizeBytes = f.size,
                !.tracked = [name |-> FullName(f), size |-> f.size],
                !.pending = @ \cup {f}]

\* reader.onload of handleFile
readerOnload(w, f, markup) ==
    LET w0 == [w EXCEPT !.pending = @ \ {f}]
        saved(x) == [x EXCEPT !.recent =
                        setItem(x.prefs, @,
                            saveRecentFile(getRecentFiles(x.prefs, @),
                                           FullName(f), f.size, x.now))]
    IN  IF ToLower(f.ext) = "json"
        THEN IF f.kind \notin {"lottie", "nulljson"}
             THEN [w0 EXCEPT !.out.alert = InvalidJsonMsg]
             ELSE saved(loadLottieAnimation(
                    [w0 EXCEPT !.state.animationData =
                        IF f.kind = "lottie" THEN f ELSE NullData], markup))
        ELSE saved(loadStaticSVG(w0, f))

\* loadFromJSONString(filename, size, json)
loadFromJSONString(w, f, markup) ==
    LET w1 == [w EXCEPT
                 !.state.originalFilename = f.base,
                 !.state.originalFileExt =
                    IF ToLower(f.ext) = "svg" THEN "svg" ELSE "json"]
    IN  IF f.kind \notin {"lottie", "nulljson"}
        THEN [w1 EXCEPT !.out.alert = SavedFailedMsg]
        ELSE loadLottieAnimation(
                [w1 EXCEPT
                   !.state.animationData =
                        IF f.kind = "lottie" THEN f ELSE NullData,
                   !.state.fileSizeBytes = f.size,
                   !.tracked = [name |-> FullName(f), size |-> f.size]],
                markup)

\* loadFromSVGString(filename, size, svg)
loadFromSVGString(w, f) ==
    loadStaticSVG(
        [w EXCEPT !.state.originalFilename = f.base,
                  !.state.originalFileExt = "svg",
                  !.state.fileSizeBytes = f.size,
                  !.tracked = [name |-> FullName(f), size |-> f.size]], f)

\* aria-checked of #loop-toggle-switch, read by clearAnimation: the page
\* script toggles the switch and calls setLoop with its value, so the switch
\* shows the controller's loop flag
LoopSwitchChecked(w) == w.state.isLooping

\* clearAnimation() without the reset of currentFileName / currentFileSize
clearAnimationKeepingTracking(w) ==
    LET old == w.state.animationInstance
    IN  [w EXCEPT
           !.stale = IF old.live THEN Destroyed(@, old) ELSE @,
           !.instances = IF old.live THEN @ - 1 ELSE @,
           !.out.calls = IF old.live THEN Append(@, "destroy") ELSE @,
           !.state.animationInstance = NoInst,
           !.box = [EmptyBox EXCEPT !.visible = w.box.visible,
                                    !.watching = w.box.watching],
           !.state.animationData = NullData,
           !.state.totalFrames = 0,
           !.state.currentFrame = 0,
           !.state.originalFilename = "",
           !.spans = [current |-> 0, total |-> 0],
           !.slider = [value |-> 0, max |-> SliderMaxAfterClear],
           !.buttons.downloadBtn.disabled = TRUE,
           !.buttons.playBtn.disabled = TRUE,
           !.state.isPlaying = FALSE,
           !.state.isLooping = LoopSwitchChecked(w)]

\* clearAnimation() (clearCurrentFile only adds the section toggling)
clearAnimation(w) ==
    LET old == w.state.animationInstance
    IN  [w EXCEPT
           !.stale = IF old.live THEN Destroyed(@, old) ELSE @,
           !.instances = IF old.live THEN @ - 1 ELSE @,
           !.out.calls = IF old.live THEN Append(@, "destroy") ELSE @,
           !.state.animationInstance = NoInst,
           !.box = [EmptyBox EXCEPT !.visible = w.box.visible,
                                    !.watching = w.box.watching],
           !.state.animationData = NullData,
           !.state.totalFrames = 0,
           !.state.currentFrame = 0,
           !.state.originalFilename = "",
           !.tracked = [name |-> NoName, size |-> Undef],
           !.spans = [current |-> 0, total |-> 0],
           !.slider = [value |-> 0, max |-> SliderMaxAfterClear],
           !.buttons.downloadBtn.disabled = TRUE,
           !.buttons.playBtn.disabled = TRUE,
           !.state.isPlaying = FALSE,
           !.state.isLooping = LoopSwitchChecked(w)]

\* isCurrentFile(filename, size)
isCurrentFile(w, name, size) ==
    w.tracked.name = name /\ w.tracked.size = size

\* isSVGLoaded()
isSVGLoaded(w) ==
    /\ w.state.totalFrames = 0
    /\ ~w.state.animationInstance.live
    /\ w.tracked.name # NoName

\* ------------------------------------------------------- export pipeline

\* the raster-scale slider positions tried, and the formats of the select
RasterIdx == {0, 1}
Formats == {"svg", "png", "jpeg"}

\* scaleSteps[idx] in quarters (0.25, 0.5, 1, 2, 4, 8), leftmost (0) as 1x
ScaleQuarters(scaleIdx) ==
    LET scaleSteps == <<1, 2, 4, 8, 16, 32>>
        idx == IF scaleIdx = 0 THEN 2 ELSE scaleIdx
    IN  scaleSteps[Max(0, Min(Len(scaleSteps) - 1, idx)) + 1]

\* buildExportableSVGString as it would be with the overlay rect left in the
\* clone
buildExportableSVGStringWithOverlay(w) ==
    LET svg == [w.box EXCEPT !.opacityStyle = FALSE, !.style = NoStyle]
        width == IF w.state.width # 0 THEN w.state.width ELSE svg.vbw
        height == IF w.state.height # 0 THEN w.state.height ELSE svg.vbh
        force == width # 0 /\ height # 0
    IN  [src |-> svg.src,
         raw |-> IF w.state.animationInstance.live
                 THEN w.state.animationInstance.raw ELSE 0,
         w |-> IF force THEN width ELSE svg.aw,
         h |-> IF force THEN height ELSE svg.ah,
         vbw |-> IF force THEN width ELSE svg.vbw,
         vbh |-> IF force THEN height ELSE svg.vbh,
         overlay |-> svg.rect.on,
         opacityStyle |-> svg.opacityStyle,
         styled |-> svg.style # NoStyle]

\* buildExportableSVGString(originalSvg): the clone with the overlay rect,
\* the ignore-opacity style element and the inline style removed and
\* width/height/viewBox forced to state.width x state.height; of the result:
\* what it shows, its size, and whether the rect, the style element and an
\* inline style are in it
buildExportableSVGString(w) ==
    LET svg == [w.box EXCEPT !.rect = NoRect, !.opacityStyle = FALSE,
                             !.style = NoStyle]
        width == IF w.state.width # 0 THEN w.state.width ELSE svg.vbw
        height == IF w.state.height # 0 THEN w.state.height ELSE svg.vbh
        force == width # 0 /\ height # 0
    IN  [src |-> svg.src,
         raw |-> IF w.state.animationInstance.live
                 THEN w.state.animationInstance.raw ELSE 0,
         w |-> IF force THEN width ELSE svg.aw,
         h |-> IF force THEN height ELSE svg.ah,
         vbw |-> IF force THEN width ELSE svg.vbw,
         vbh |-> IF force THEN height ELSE svg.vbh,
         overlay |-> svg.rect.on,
         opacityStyle |-> svg.opacityStyle,
         styled |-> svg.style # NoStyle]

\* downloadSVG with optimizeSVG letting the error of svgo through: nothing is
\* offered when it throws
downloadSVGPropagating(doc, base, frame, svgoThrows) ==
    IF svgoThrows THEN NoDl
    ELSE [base |-> base, frame |-> frame, ext |-> "svg", src |-> doc.src,
          raw |-> doc.raw, w |-> doc.w, h |-> doc.h, vbw |-> doc.vbw,
          vbh |-> doc.vbh, scale |-> 4, via |-> "optimized",
          overlay |-> doc.overlay, opacityStyle |-> doc.opacityStyle,
          styled |-> doc.styled]

\* downloadSVG(svgContent, filename, aggressive): optimizeSVG falls back to
\* cleanLottieIds when svgo throws, and the file is offered either way
downloadSVG(doc, base, frame, svgoThrows) ==
    [base |-> base, frame |-> frame, ext |-> "svg", src |-> doc.src,
     raw |-> doc.raw, w |-> doc.w, h |-> doc.h, vbw |-> doc.vbw,
     vbh |-> doc.vbh, scale |-> 4,
     via |-> IF svgoThrows THEN "cleaned" ELSE "optimized",
     overlay |-> doc.overlay, opacityStyle |-> doc.opacityStyle,
     styled |-> doc.styled]

\* downloadCurrentFrame as it would be without the look for an svg element
\* in the container (C9 has to tell the two apart)
downloadCurrentFrameUnchecked(w, format, scaleIdx, svgoThrows) ==
    LET w1 == touchRecentIfNeeded(w)
        doc == buildExportableSVGString(w1)
        baseFilename == IF w1.state.originalFilename # ""
                        THEN w1.state.originalFilename ELSE "graphic"
        frame == IF w1.state.animationInstance.live
                 THEN w1.state.currentFrame ELSE -1
    IN  IF format = "svg"
        THEN [w1 EXCEPT !.out.dl = downloadSVG(doc, baseFilename, frame, svgoThrows)]
        ELSE [w1 EXCEPT !.raster = @ \cup
                {[base |-> baseFilename, frame |-> frame, format |-> format,
                  scale |-> ScaleQuarters(scaleIdx), doc |-> doc]}]

\* downloadCurrentFrame(), up to the first await
downloadCurrentFrame(w, format, scaleIdx, svgoThrows) ==
    LET w1 == touchRecentIfNeeded(w)
        doc == buildExportableSVGString(w1)
        baseFilename == IF w1.state.originalFilename # ""
                        THEN w1.state.originalFilename ELSE "graphic"
        isAnimated == w1.state.animationInstance.live
        frame == IF isAnimated THEN w1.state.currentFrame ELSE -1
    IN  IF w1.box.kind # "svg"
        THEN [w1 EXCEPT !.out.alert = NoSvgMsg]
        ELSE IF format = "svg"
        THEN [w1 EXCEPT !.out.dl = downloadSVG(doc, baseFilename, frame, svgoThrows)]
        ELSE [w1 EXCEPT !.raster = @ \cup
                {[base |-> baseFilename, frame |-> frame, format |-> format,
                  scale |-> ScaleQuarters(scaleIdx), doc |-> doc]}]

\* the raster export as it would be with no catch around it: a failure goes
\* unreported (C10 has to tell the two apart)
downloadRasterUncaught(w, job, ok) ==
    IF ok
    THEN [w EXCEPT !.raster = @ \ {job},
                   !.out.dl = [NoDl EXCEPT !.base = job.base, !.via = "raster"]]
    ELSE [w EXCEPT !.raster = @ \ {job}]

\* downloadRasterFromSVG(svgContent, filenameWithoutExt, format, quality,
\* scale) once the image decode settles; `ok` is false when the decode, the 2d
\* context or the blob fails, and downloadCurrentFrame catches that
downloadRasterFromSVG(w, job, ok) ==
    LET natW == IF job.doc.w # 0 THEN job.doc.w
                ELSE IF job.doc.vbw # 0 THEN job.doc.vbw ELSE 300
        natH == IF job.doc.h # 0 THEN job.doc.h
                ELSE IF job.doc.vbh # 0 THEN job.doc.vbh ELSE 150
        width == Max(1, (Max(1, natW) * job.scale + 2) \div 4)
        height == Max(1, (Max(1, natH) * job.scale + 2) \div 4)
        w1 == [w EXCEPT !.raster = @ \ {job}]
    IN  IF ok
        THEN [w1 EXCEPT !.out.dl =
                [base |-> job.base, frame |-> job.frame,
                 ext |-> IF job.format = "png" THEN "png" ELSE "jpg",
                 src |-> job.doc.src, raw |-> job.doc.raw,
                 w |-> width, h |-> height,
                 vbw |-> job.doc.vbw, vbh |-> job.doc.vbh,
                 scale |-> job.scale, via |-> "raster",
                 overlay |-> job.doc.overlay,
                 opacityStyle |-> job.doc.opacityStyle,
                 styled |-> job.doc.styled]]
        ELSE [w1 EXCEPT !.out.alert = ExportErrorMsg]

\* ------------------------------------------------------ viewport controls

\* setModeFit without the pan reset
setModeFitKeepingPan(w) ==
    LET w1 == applyZoom([w EXCEPT !.state.zoomMode = "fit"])
        percent == computeFitPercent(w1)
    IN  updateFrameOutlineAppearance(
            IF percent # 0 THEN updateTriggerLabel(w1, percent) ELSE w1)

\* setModeFit (setupZoomControls)
setModeFit(w) ==
    LET w1 == applyZoom([w EXCEPT !.state.zoomMode = "fit",
                                  !.pan.x = QInt(0), !.pan.y = QInt(0)])
        percent == computeFitPercent(w1)
    IN  updateFrameOutlineAppearance(
            IF percent # 0 THEN updateTriggerLabel(w1, percent) ELSE w1)

\* setPercent (setupZoomControls)
setPercent(w, percent) ==
    updateFrameOutlineAppearance(
        updateTriggerLabel(
            applyZoom([w EXCEPT !.state.zoomMode = "fixed",
                                !.state.zoomPercent = percent]),
            percent))

\* initializeLabel (setupZoomControls)
initializeLabel(w) ==
    IF w.state.zoomMode = "fit"
    THEN (IF computeFitPercent(w) # 0
          THEN updateTriggerLabel(w, computeFitPercent(w)) ELSE w)
    ELSE updateTriggerLabel(w, IF w.state.zoomPercent # 0
                               THEN w.state.zoomPercent ELSE 100)

\* the "starwind-select:change" listener (setupZoomControls) is
\* selectChange below, after handleSelectChange

\* the resize listener (setupZoomControls), the layout being the new one
onResize(w) ==
    IF w.state.zoomMode = "fit"
    THEN updateFrameOutlineAppearance(initializeLabel(applyZoom(w)))
    ELSE w

\* the values the zoom menu can send: the two steps, fit, and numeric entries
ZoomValues == {"zoom-in", "zoom-out", "fit", "50", "200", "5000"}

\* parseInt(value, 10) on the numeric entries
ParseInt(value) ==
    CASE value = "50" -> 50
      [] value = "200" -> 200
      [] value = "5000" -> 5000
      [] OTHER -> 0

\* handleSelectChange(value) (setupZoomControls)
handleSelectChange(w, value) ==
    LET fitPercent == computeFitPercent(w)
        currentPercent ==
            IF w.state.zoomMode = "fixed"
            THEN (IF w.state.zoomPercent # 0 THEN w.state.zoomPercent ELSE 100)
            ELSE (IF fitPercent # 0 THEN fitPercent ELSE 100)
        nextIn == IF currentPercent >= 200 THEN 400
                  ELSE IF currentPercent >= 100 THEN 200
                  ELSE IF currentPercent >= 50 THEN 100 ELSE 50
        nextOut == IF currentPercent <= 50 THEN 25
                   ELSE IF currentPercent <= 100 THEN 50
                   ELSE IF currentPercent <= 200 THEN 100 ELSE 200
    IN  CASE value = "zoom-in" -> setPercent(w, nextIn)
          [] value = "zoom-out" -> setPercent(w, nextOut)
          [] value = "fit" -> setModeFit(w)
          [] OTHER -> setPercent(w, ParseInt(value))

\* the "starwind-select:change" listener (setupZoomControls): the change,
\* and the label refreshed again in the next animation frame
selectChange(w, value) ==
    [handleSelectChange(w, value) EXCEPT !.timers = @ \cup {"initializeLabel"}]

\* getFitPaddingPx(): left and right 20rem, top 0, bottom 5rem; the shifts
\* (pad.left - pad.right) / 2 and (pad.top - pad.bottom) / 2 of the centre
xShift == QNorm(20 * RemPx - 20 * RemPx, 2)
yShift == QNorm(0 - 5 * RemPx, 2)

\* Math.max(-4, Math.min(4, Math.round(delta / 100)))
WheelSteps(delta) == Max(-4, Min(4, (delta + 50) \div 100))

\* wheelPercent with the new percentage truncated instead of rounded
wheelPercentTruncated(basePercent, delta) ==
    LET steps == WheelSteps(delta)
        k == IF steps = 0 THEN (IF delta < 0 THEN -1 ELSE 1) ELSE steps
        newPercentRaw == IF k > 0
                         THEN <<basePercent * Pow(10, k), Pow(11, k)>>
                         ELSE <<basePercent * Pow(11, -k), Pow(10, -k)>>
    IN  Max(2, Min(3200, newPercentRaw[1] \div newPercentRaw[2]))

\* the percentage the wheel listener derives from basePercent and deltaY:
\* basePercent * (1 / factor), factor 1.1 ** steps (one notch either way when
\* steps is 0), rounded and clamped to 2 .. 3200
wheelPercent(basePercent, delta) ==
    LET steps == WheelSteps(delta)
        k == IF steps = 0 THEN (IF delta < 0 THEN -1 ELSE 1) ELSE steps
        newPercentRaw == IF k > 0
                         THEN <<basePercent * Pow(10, k), Pow(11, k)>>
                         ELSE <<basePercent * Pow(11, -k), Pow(10, -k)>>
    IN  Max(2, Min(3200, RoundFrac(newPercentRaw)))

\* the wheel listener (setupWheelZoom), outside the zoom menu
onWheel(w, delta) ==
    IF w.box.kind # "svg" THEN w
    ELSE LET oldScale == getCurrentScale(w)
             fitPercent == computeFitPercent(w)
             basePercent ==
                IF w.state.zoomMode = "fit"
                THEN (IF fitPercent # 0 THEN fitPercent ELSE 100)
                ELSE (IF w.state.zoomPercent # 0 THEN w.state.zoomPercent
                      ELSE 100)
             w1 == [w EXCEPT !.state.zoomMode = "fixed",
                             !.state.zoomPercent =
                                wheelPercent(basePercent, delta)]
             newScale == getCurrentScale(w1)
             ratio == QNorm(newScale[1] * oldScale[2], newScale[2] * oldScale[1])
         IN  updateFrameOutlineAppearance(
               updateTriggerLabel(
                 applyZoom(
                   [w1 EXCEPT
                      !.pan.x = QSub(QMul(ratio, QAdd(@, xShift)), xShift),
                      !.pan.y = QSub(QMul(ratio, QAdd(@, yShift)), yShift)]),
                 w1.state.zoomPercent))

\* the dblclick listener (setupPanControls), outside the zoom menu
onDblClick(w) ==
    applyZoom([w EXCEPT !.pan.x = QInt(0), !.pan.y = QInt(0)])

\* the mousemove listener (setupPanControls)
onMouseMove(w, dx, dy) ==
    IF ~w.pan.isPanning THEN w
    ELSE applyZoom([w EXCEPT !.pan.x = QAdd(@, QInt(dx)),
                             !.pan.y = QAdd(@, QInt(dy))])

\* an event of the page reaches every listener registered for it, one after
\* the other: n click listeners of the play button, n wheel listeners
RECURSIVE playClickListeners(_, _)
playClickListeners(w, n) ==
    IF n = 0 THEN w ELSE playClickListeners(onPlayClick(w), n - 1)

RECURSIVE wheelListeners(_, _, _)
wheelListeners(w, delta, n) ==
    IF n = 0 THEN w ELSE wheelListeners(onWheel(w, delta), delta, n - 1)

\* reinitialize() over the elements the page already had: initializeElements
\* finds them again, and setupEventListeners adds every listener once more
\* and repeats what the set-up functions do besides (the loop flag read
\* from the switch, both overlay preferences read and applied, the deferred
\* refresh of the zoom label)
reinitialize(w) ==
    LET w1 == [w EXCEPT
                 !.registrations = @ + 1,
                 !.state.isLooping = LoopSwitchChecked(w),
                 !.timers = @ \cup {"initializeLabel"},
                 !.frameOutlineOn = getPreference(w.prefs, "show-frame")]
        w2 == applyFrameOutline(w1)
    IN  applyOpacityOverride(
            [w2 EXCEPT !.state.ignoreOpacity =
                           getPreference(w.prefs, "ignore-opacity")])

\* ----------------------------------------------------------------- actions

\* a file is dropped or picked
HandleFile(f) ==
    Commit(handleFile(W, f))

\* FileReader finishes reading one of the files
ReaderOnload(f, markup) ==
    /\ f \in pending
    /\ Commit(readerOnload(W, f, markup))

\* a recent-files entry with inline content is reopened
LoadFromJSONString(f, markup) ==
    /\ ToLower(f.ext) = "json"
    /\ Commit(loadFromJSONString(W, f, markup))

LoadFromSVGString(f) ==
    /\ ToLower(f.ext) = "svg"
    /\ Commit(loadFromSVGString(W, f))

\* the engine puts its svg into the container after loadAnimation returned
EngineMarkup ==
    /\ state.animationInstance.live
    /\ ~state.animationInstance.markup
    /\ Commit(observerCallback(
            [W EXCEPT !.state.animationInstance.markup = TRUE,
                      !.box = LottieBox(state.animationData, container)]))

\* the engine delivers DOMLoaded of the live instance
DOMLoaded ==
    /\ state.animationInstance.live
    /\ ~state.animationInstance.loaded
    /\ Commit(onDOMLoaded(W))

\* the engine renders the next frame while playing.  A run that does not
\* loop ends on frame T - 1 and completes there; a looping run plays the last
\* frame out, through the positions between T - 1 and T, before it wraps.
EnterFrame(raw) ==
    LET inst == state.animationInstance
        last == 2 * (inst.T - 1)
        done == ~inst.loop /\ raw = last
        w1 == onEnterFrame([W EXCEPT !.state.animationInstance.raw = raw])
    IN  /\ inst.live /\ inst.loaded /\ inst.playing
        /\ raw \in 0 .. (IF inst.loop THEN last + 1 ELSE last)
        /\ inst.loop \/ raw >= inst.raw
        /\ Commit(IF done
               THEN onComplete([w1 EXCEPT !.state.animationInstance.playing = FALSE])
               ELSE w1)

Play == Commit(play(W))
Pause == Commit(pause(W))
SetFrame(n) == Commit(setFrame(W, n))
SetLoop(b) == Commit(setLoop(W, b))

\* the user drags the frame slider to v
SliderInput(v) ==
    /\ v \in 0 .. slider.max
    /\ Commit(sliderInput([W EXCEPT !.slider.value = v]))

ClearCurrentFile == Commit(clearAnimation(W))

DownloadCurrentFrame(format, scaleIdx, svgoThrows) ==
    /\ format = "svg" \/ ~svgoThrows
    /\ format = "svg" => scaleIdx = 0
    /\ Commit(downloadCurrentFrame(W, format, scaleIdx, svgoThrows))

RasterSettles(job, ok) ==
    /\ job \in raster
    /\ Commit(downloadRasterFromSVG(W, job, ok))

\* a destroyed instance still delivers a notification
LateDOMLoaded == stale.domLoaded /\ Commit(onDOMLoaded(W))
LateEnterFrame == stale.listeners /\ Commit(onEnterFrame(W))
LateComplete == stale.listeners /\ Commit(onComplete(W))

\* the zoom menu sends a value
ZoomSelect(value) == Commit(selectChange(W, value))

\* the drags tried keep the pan offset within -MaxPan .. MaxPan
InPanRange(q) == QLeq(QInt(-MaxPan), q) /\ QLeq(q, QInt(MaxPan))

\* left button down on the preview area, the drag, the release
MouseDown == Commit([W EXCEPT !.pan.isPanning = TRUE])
MouseMove(dx, dy) ==
    /\ pan.isPanning
    /\ InPanRange(QAdd(pan.x, QInt(dx)))
    /\ InPanRange(QAdd(pan.y, QInt(dy)))
    /\ Commit(onMouseMove(W, dx, dy))
MouseUp == Commit([W EXCEPT !.pan.isPanning = FALSE])
DblClick == Commit(onDblClick(W))

\* the wheel is turned over the preview area, deltaY = delta
Wheel(delta) == Commit(wheelListeners(W, delta, registrations))

\* the play button is clicked
PlayClick == Commit(playClickListeners(W, registrations))

\* the page calls reinitialize(), its elements being the same as before
Reinitialize ==
    /\ registrations < MaxRegistrations
    /\ Commit(reinitialize(W))

\* the switches of the preview card send "starwind-switch:change"
IgnoreOpacityChange(checked) == Commit(onIgnoreOpacityChange(W, checked))
FrameToggleChange(checked) == Commit(onFrameToggleChange(W, checked))

\* the page is loaded again
Reload == Commit(constructor(W))

\* the texts found under a key: what String(value) gives for its values, and
\* one text no value of the key gives
StoredTexts(key) ==
    IF key \in BooleanKeys THEN {"true", "false", "yes"}
    ELSE ExportFormats \cup {"gif"}

\* another script of the origin, an earlier release of the page or the user
\* (developer tools) leaves `text` under PREFIX + key
StoreHolds(key, text) ==
    /\ text \in StoredTexts(key)
    /\ Commit([W EXCEPT !.prefs.items[key] = {text}])

\* the export format is chosen and kept (setPreference("export-format", v))
SetExportFormat(format) ==
    Commit([W EXCEPT !.prefs = setPreference(@, "export-format", format)])

\* resetAllPreferences(): RECENT_KEY starts with PREFIX, so the recent-files
\* list goes with the preferences
ResetAllPreferences ==
    Commit([W EXCEPT !.prefs = resetAllPreferences(@),
                     !.recent = IF prefs.mode = "denied" THEN @ ELSE <<>>])

\* a card of the page is collapsed or expanded
SetCardCollapsed(cardId, collapsed) ==
    Commit([W EXCEPT !.prefs = setCardCollapsed(@, cardId, collapsed)])

\* the browser changes how localStorage answers: quota reached ("full"),
\* access refused ("denied"), or neither
StoreModes == {"ok", "full", "denied"}
StoreAnswers(mode) ==
    /\ prefs.mode # mode
    /\ Commit([W EXCEPT !.prefs.mode = mode])

\* a deferred refresh of the zoom label runs
InitializeLabel ==
    /\ "initializeLabel" \in timers
    /\ Commit(initializeLabel([W EXCEPT !.timers = @ \ {"initializeLabel"}]))

\* the window is resized: the preview area becomes aw x ah
Resize(aw, ah) ==
    /\ layout # [w |-> aw, h |-> ah]
    /\ Commit(onResize([W EXCEPT !.layout = [w |-> aw, h |-> ah]]))

FrameArgs == (-1) .. MaxFrameArg
SliderTries == (0 .. MaxFrameArg) \cup {SliderMaxAfterClear}
RawTries == 0 .. 2 * MaxFrameArg

\* reading dropped files; the engine inserts its svg inside loadAnimation
Reading ==
    \/ \E f \in files : HandleFile(f)
    \/ \E f \in files : ReaderOnload(f, TRUE)
    \/ DOMLoaded

\* reopening from the recent files, and clearing
Reopening ==
    \/ \E f \in files : LoadFromJSONString(f, TRUE)
    \/ ClearCurrentFile

\* playback and scrubbing
Playback ==
    \/ \E raw \in RawTries : EnterFrame(raw)
    \/ Play
    \/ Pause
    \/ \E n \in FrameArgs : SetFrame(n)
    \/ \E b \in BOOLEAN : SetLoop(b)
    \/ \E v \in SliderTries : SliderInput(v)

\* the session controller, for each of the sets of files tried
Scenarios == {{fA, fB, fT}, {fA, fBad, fT}, {fA, fN}, {fA, fS}, {fA, fP},
              {fA, fNull}}
Init == Boot /\ ~stale.late /\ files \in Scenarios
Next ==
    \/ Reading
    \/ Reopening
    \/ \E f \in files : LoadFromSVGString(f)
    \/ Playback
Spec == Init /\ [][Next]_vars

\* two files dropped one after the other, their reads overlapping or not
InitReads == Boot /\ ~stale.late /\ files = {fA, fB, fT}
NextReads ==
    \/ Reading
    \/ Play
    \/ Pause
    \/ \E n \in FrameArgs : SetFrame(n)
SpecReads == InitReads /\ [][NextReads]_vars

\* the same controller with an engine that may deliver notifications of an
\* instance after instance.destroy()
InitLate == Boot /\ stale.late /\ files = {fA, fB}
NextLate ==
    \/ Reading
    \/ Reopening
    \/ Playback
    \/ LateDOMLoaded
    \/ LateEnterFrame
    \/ LateComplete
SpecLate == InitLate /\ [][NextLate]_vars

\* the export pipeline under the viewport controls: zoom mode fit and fixed,
\* drags along the diagonal.  The completion of a raster export reads nothing
\* but its job, so it is taken before the next event.
Quiet == raster = {}
InitExport == Boot /\ ~stale.late /\ files = {fA, fB, fS}
NextExport ==
    \/ Quiet /\ \E f \in files, markup \in BOOLEAN : LoadFromJSONString(f, markup)
    \/ Quiet /\ \E f \in files : LoadFromSVGString(f)
    \/ Quiet /\ EngineMarkup
    \/ Quiet /\ DOMLoaded
    \/ Quiet /\ ClearCurrentFile
    \/ Quiet /\ \E n \in {0, MaxFrameArg} : SetFrame(n)
    \/ Quiet /\ \E value \in {"fit", "200"} : ZoomSelect(value)
    \/ Quiet /\ MouseDown
    \/ Quiet /\ \E d \in 1 .. MaxDrag : MouseMove(d, d)
    \/ Quiet /\ MouseUp
    \/ Quiet /\ \E format \in Formats, scaleIdx \in RasterIdx,
                   svgoThrows \in BOOLEAN :
                    DownloadCurrentFrame(format, scaleIdx, svgoThrows)
    \/ \E job \in raster, ok \in BOOLEAN : RasterSettles(job, ok)
SpecExport == InitExport /\ [][NextExport]_vars

\* deltaY of the wheel events tried: one to five notches either way, and a
\* fraction of a notch either way
WheelDeltas == {-500, -400, -300, -200, -100, -30, 30, 100, 200, 300, 400, 500}

\* the wheel events tried next to the menu and the drags
ViewportDeltas == {-100, -30, 200}

\* the pan offset is a whole number of px, as drags and resets leave it
WholePan == pan.x[2] = 1 /\ pan.y[2] = 1

\* the percentages the zoom menu leaves: its two steps and its numeric entries
MenuPercents == {25, 50, 100, 200, 400} \cup {ParseInt(v) : v \in {"50", "200", "5000"}}

\* the zoom is as a load or the zoom menu left it
MenuZoom == state.zoomMode = "fit" \/ state.zoomPercent \in MenuPercents

\* the viewport controls over an animation and a static document: the zoom
\* menu, drags, double click, and a wheel gesture after a menu choice, taken
\* from a whole-px pan offset
InitViewport == Boot /\ ~stale.late /\ files = {fA, fS}
NextViewport ==
    \/ LoadFromJSONString(fA, TRUE)
    \/ LoadFromSVGString(fS)
    \/ DOMLoaded
    \/ \E value \in ZoomValues : ZoomSelect(value)
    \/ WholePan /\ MenuZoom /\ \E delta \in ViewportDeltas : Wheel(delta)
    \/ MouseDown
    \/ \E d \in {-MaxDrag, MaxDrag} : MouseMove(d, d)
    \/ MouseUp
    \/ DblClick
SpecViewport == InitViewport /\ [][NextViewport]_vars

\* the recent-files module called on its own; Date.now() moves on
SaveRecentFile(name, size) ==
    /\ recent' = saveRecentFile(recent, name, size, clock)
    /\ UNCHANGED <<state, tracked, pan, hasInteractedSinceLoad, slider, spans,
                   container, pending, raster, clock, stale, out, layout, files,
                   prefs, frameOutlineOn, buttons, label, timers, instances,
                   registrations>>
TouchRecent(name, size) ==
    /\ recent' = touchRecent(recent, name, size, clock)
    /\ UNCHANGED <<state, tracked, pan, hasInteractedSinceLoad, slider, spans,
                   container, pending, raster, clock, stale, out, layout, files,
                   prefs, frameOutlineOn, buttons, label, timers, instances,
                   registrations>>
Tick ==
    /\ clock < MaxTicks
    /\ clock' = clock + 1
    /\ UNCHANGED <<state, tracked, pan, hasInteractedSinceLoad, slider, spans,
                   container, recent, pending, raster, stale, out, layout, files,
                   prefs, frameOutlineOn, buttons, label, timers, instances,
                   registrations>>

\* the file names of SpecRecent are 1 .. MaxNames, the sizes 1 and 2
NextName(items) ==
    IF items = <<>> THEN 1
    ELSE 1 + CHOOSE n \in 1 .. MaxNames :
                /\ \E i \in DOMAIN items : items[i].name = n
                /\ \A i \in DOMAIN items : items[i].name <= n

\* the list is short, or full or one short of it
ShortOrFull == Len(recent) \in {1, 2, MAX_ITEMS - 1, MAX_ITEMS}

\* from the empty list: a file newer than those in the list is saved; while
\* the list is short or about full, the first entry is saved again, a name
\* is saved with another size, the first or the last entry or a file not in
\* the list is touched, and the clock moves on; the older entry of a list of
\* two is saved again
InitRecent == Boot /\ ~stale.late /\ files = {}
NextRecent ==
    \/ NextName(recent) <= MaxNames /\ SaveRecentFile(NextName(recent), 1)
    \/ ShortOrFull /\ SaveRecentFile(recent[1].name, recent[1].size)
    \/ Len(recent) = 2 /\ SaveRecentFile(recent[2].name, recent[2].size)
    \/ ShortOrFull /\ SaveRecentFile(1, 2)
    \/ ShortOrFull /\ \E i \in {1, Len(recent)} :
                          TouchRecent(recent[i].name, recent[i].size)
    \/ TouchRecent(MaxNames, 2)
    \/ ShortOrFull /\ Tick
SpecRecent == InitRecent /\ [][NextRecent]_vars

\* the recent-files list has an entry for the file
CachedEntry(f) ==
    \E i \in DOMAIN recent :
        recent[i].name = FullName(f) /\ recent[i].size = f.size

\* the controller keeping the recent files while the clock moves on: files
\* are dropped, entries of the list are reopened, and the user plays, pauses,
\* scrubs and exports
InitTouch == Boot /\ ~stale.late /\ files = {fA, fS}
NextTouch ==
    \/ Reading
    \/ \E f \in files : CachedEntry(f) /\ LoadFromJSONString(f, TRUE)
    \/ \E f \in files : CachedEntry(f) /\ LoadFromSVGString(f)
    \/ Play
    \/ Pause
    \/ \E v \in SliderTries : SliderInput(v)
    \/ DownloadCurrentFrame("svg", 0, FALSE)
    \/ Tick
SpecTouch == InitTouch /\ [][NextTouch]_vars

\* the playback controls over an animation and a static document, each
\* reopened from the recent files, and over no asset
InitPlay == Boot /\ ~stale.late /\ files = {fA, fS}
NextPlay ==
    \/ LoadFromJSONString(fA, TRUE)
    \/ LoadFromSVGString(fS)
    \/ DOMLoaded
    \/ ClearCurrentFile
    \/ Playback
SpecPlay == InitPlay /\ [][NextPlay]_vars

\* wheel gestures one after the other over an animation that has loaded
InitWheel == Boot /\ ~stale.late /\ files = {fA}
NextWheel ==
    \/ container.kind = "empty" /\ LoadFromJSONString(fA, TRUE)
    \/ DOMLoaded
    \/ ZoomSelect("fit")
    \/ state.animationInstance.loaded /\ \E delta \in WheelDeltas : Wheel(delta)
SpecWheel == InitWheel /\ [][NextWheel]_vars

\* the preferences over the life of the store: the switches of the preview
\* card, the export format, texts left under the keys by others, the store
\* emptied, the store refusing, and the page loaded again over what is kept
InitPrefs == Boot /\ ~stale.late /\ files = {fS}
NextPrefs ==
    \/ \E checked \in BOOLEAN : IgnoreOpacityChange(checked)
    \/ \E checked \in BOOLEAN : FrameToggleChange(checked)
    \/ \E format \in ExportFormats : SetExportFormat(format)
    \/ \E key \in PrefKeys : \E text \in StoredTexts(key) : StoreHolds(key, text)
    \/ ResetAllPreferences
    \/ \E mode \in StoreModes : StoreAnswers(mode)
    \/ Reload
SpecPrefs == InitPrefs /\ [][NextPrefs]_vars

\* a session over a store that rejects every write, all along: files dropped
\* and read one at a time, the switches of the preview card, the file cleared
InitStore ==
    /\ \E mode \in StoreModes \ {"ok"} :
            BootOver([EmptyStore EXCEPT !.mode = mode])
    /\ ~stale.late
    /\ files = {fA, fS}
NextStore ==
    \/ \E mode \in StoreModes \ {"ok"} : StoreAnswers(mode)
    \/ \E f \in files : pending = {} /\ HandleFile(f)
    \/ \E f \in files : ReaderOnload(f, TRUE)
    \/ DOMLoaded
    \/ \E checked \in BOOLEAN : IgnoreOpacityChange(checked)
    \/ \E checked \in BOOLEAN : FrameToggleChange(checked)
    \/ ClearCurrentFile
SpecStore == InitStore /\ [][NextStore]_vars

\* files dropped and read, one of them not parsing, and the frame exported
\* in every format; one raster export at a time
InitDownload == Boot /\ ~stale.late /\ files = {fA, fBad, fS}
NextDownload ==
    \/ Quiet /\ Reading
    \/ Quiet /\ ClearCurrentFile
    \/ Quiet /\ \E n \in {0, MaxFrameArg} : SetFrame(n)
    \/ Quiet /\ \E format \in Formats : DownloadCurrentFrame(format, 0, FALSE)
    \/ \E job \in raster : RasterSettles(job, TRUE)
SpecDownload == InitDownload /\ [][NextDownload]_vars

\* files opened, played, scrubbed, exported and cleared, reads of dropped
\* files running across the clear
InitClear == Boot /\ ~stale.late /\ files = {fA, fS}
NextClear ==
    \/ Quiet /\ Reading
    \/ Quiet /\ \E f \in files : LoadFromJSONString(f, TRUE)
    \/ Quiet /\ \E f \in files : LoadFromSVGString(f)
    \/ Quiet /\ ClearCurrentFile
    \/ Quiet /\ Play
    \/ Quiet /\ Pause
    \/ Quiet /\ \E n \in {0, MaxFrameArg} : SetFrame(n)
    \/ Quiet /\ \E raw \in RawTries : EnterFrame(raw)
    \/ Quiet /\ \E format \in Formats : DownloadCurrentFrame(format, 0, FALSE)
    \/ \E job \in raster : RasterSettles(job, TRUE)
SpecClear == InitClear /\ [][NextClear]_vars

\* an animation and a static document shown with the overlays switched on
\* and off, zoomed and dragged, and exported in every format
InitOverlay == Boot /\ ~stale.late /\ files = {fA, fS}
NextOverlay ==
    \/ Quiet /\ LoadFromJSONString(fA, TRUE)
    \/ Quiet /\ LoadFromSVGString(fS)
    \/ Quiet /\ DOMLoaded
    \/ Quiet /\ \E checked \in BOOLEAN : IgnoreOpacityChange(checked)
    \/ Quiet /\ \E checked \in BOOLEAN : FrameToggleChange(checked)
    \/ Quiet /\ \E value \in {"fit", "200"} : ZoomSelect(value)
    \/ Quiet /\ MouseDown
    \/ Quiet /\ \E d \in 1 .. MaxDrag : MouseMove(d, d)
    \/ Quiet /\ MouseUp
    \/ Quiet /\ \E format \in Formats : DownloadCurrentFrame(format, 0, FALSE)
    \/ \E job \in raster : RasterSettles(job, TRUE)
SpecOverlay == InitOverlay /\ [][NextOverlay]_vars

\* the sizes the preview area is resized between
Layouts == {[w |-> AvailW, h |-> AvailH], [w |-> AvailW \div 2, h |-> AvailH]}

\* the zoom label over loads, the zoom menu, the wheel and resizes
InitLabel == Boot /\ ~stale.late /\ files = {fA, fS}
NextLabel ==
    \/ LoadFromJSONString(fA, TRUE)
    \/ LoadFromSVGString(fS)
    \/ DOMLoaded
    \/ InitializeLabel
    \/ \E value \in ZoomValues : ZoomSelect(value)
    \/ \E delta \in ViewportDeltas : WholePan /\ MenuZoom /\ Wheel(delta)
    \/ \E box \in Layouts : Resize(box.w, box.h)
SpecLabel == InitLabel /\ [][NextLabel]_vars

\* the render surface over loads of sized and unsized assets whose markup the
\* engine inserts at once or later, frame changes, both switches of the
\* preview card, the zoom menu and clearing
InitSurface == Boot /\ ~stale.late /\ files = {fA, fB, fS, fP}
NextSurface ==
    \/ \E f \in {fA, fB}, markup \in BOOLEAN : LoadFromJSONString(f, markup)
    \/ \E f \in {fS, fP} : LoadFromSVGString(f)
    \/ EngineMarkup
    \/ DOMLoaded
    \/ SetFrame(1)
    \/ ClearCurrentFile
    \/ \E checked \in BOOLEAN : IgnoreOpacityChange(checked)
    \/ \E checked \in BOOLEAN : FrameToggleChange(checked)
    \/ \E value \in {"fit", "200"} : ZoomSelect(value)
SpecSurface == InitSurface /\ [][NextSurface]_vars

\* the frame outline under everything that rescales the visual: loads, the
\* zoom menu, the wheel, the double click and resizes, the outline switched
\* on and off in between
InitStroke == Boot /\ ~stale.late /\ files = {fA, fS}
NextStroke ==
    \/ LoadFromJSONString(fA, TRUE)
    \/ LoadFromSVGString(fS)
    \/ DOMLoaded
    \/ \E checked \in BOOLEAN : FrameToggleChange(checked)
    \/ \E value \in ZoomValues : ZoomSelect(value)
    \/ \E delta \in ViewportDeltas : WholePan /\ MenuZoom /\ Wheel(delta)
    \/ \E box \in Layouts : Resize(box.w, box.h)
    \/ DblClick
SpecStroke == InitStroke /\ [][NextStroke]_vars

\* loads whose markup the engine inserts at once or later, with an engine
\* that delivers the markup and DOMLoaded of a live instance sooner or later
\* (lottie-web builds the svg and fires DOMLoaded from its own callbacks
\* unless the instance is destroyed)
InitReveal == Boot /\ ~stale.late /\ files = {fA, fS}
NextReveal ==
    \/ \E markup \in BOOLEAN : LoadFromJSONString(fA, markup)
    \/ LoadFromSVGString(fS)
    \/ EngineMarkup
    \/ DOMLoaded
    \/ ClearCurrentFile
    \/ \E checked \in BOOLEAN : FrameToggleChange(checked)
    \/ ZoomSelect("200")
\* ENABLED <<EngineMarkup>>_vars and ENABLED <<DOMLoaded>>_vars: the guards of
\* the two engine steps, each of which changes the instance it is taken on
MarkupDue == state.animationInstance.live /\ ~state.animationInstance.markup
DOMLoadedDue == state.animationInstance.live /\ ~state.animationInstance.loaded

\* WF_vars(EngineMarkup) /\ WF_vars(DOMLoaded), each written as
\* []<>~ENABLED <<A>>_vars \/ []<><<A>>_vars with the enabling condition
\* above in the place of ENABLED
EngineFair ==
    /\ ([]<>(~MarkupDue) \/ []<><<EngineMarkup>>_vars)
    /\ ([]<>(~DOMLoadedDue) \/ []<><<DOMLoaded>>_vars)

SpecReveal == InitReveal /\ [][NextReveal]_vars /\ EngineFair

\* vector exports of an animation frame and of a static document, with or
\* without the ignore-opacity style in the preview, svgo working or throwing
InitOptimizer == Boot /\ ~stale.late /\ files = {fA, fS}
NextOptimizer ==
    \/ LoadFromJSONString(fA, TRUE)
    \/ LoadFromSVGString(fS)
    \/ DOMLoaded
    \/ \E n \in 0 .. MaxFrameArg : SetFrame(n)
    \/ ClearCurrentFile
    \/ \E checked \in BOOLEAN : IgnoreOpacityChange(checked)
    \/ \E svgoThrows \in BOOLEAN : DownloadCurrentFrame("svg", 0, svgoThrows)
SpecOptimizer == InitOptimizer /\ [][NextOptimizer]_vars

\* the cards collapsed and expanded next to the switches of the preview
\* card, over a store that answers, is full or refuses, and is emptied
InitCards == Boot /\ ~stale.late /\ files = {fS}
NextCards ==
    \/ \E cardId \in Cards, collapsed \in BOOLEAN :
            SetCardCollapsed(cardId, collapsed)
    \/ \E checked \in BOOLEAN : IgnoreOpacityChange(checked)
    \/ ResetAllPreferences
    \/ \E mode \in StoreModes : StoreAnswers(mode)
SpecCards == InitCards /\ [][NextCards]_vars

\* the page calling reinitialize() over an animation: the play button, the
\* wheel and the zoom menu
InitReinit == Boot /\ ~stale.late /\ files = {fA}
NextReinit ==
    \/ LoadFromJSONString(fA, TRUE)
    \/ DOMLoaded
    \/ Reinitialize
    \/ PlayClick
    \/ \E value \in {"fit", "200"} : ZoomSelect(value)
    \/ \E delta \in {-100, 100} : WholePan /\ MenuZoom /\ Wheel(delta)
SpecReinit == InitReinit /\ [][NextReinit]_vars

\* ------------------------------------------------------------ properties

\* what a handler can change of the session: everything but the file reads
\* and raster exports under way and what was shown to the user
Session == <<state, tracked, pan, hasInteractedSinceLoad, slider, spans,
             container, recent>>

\* f is a file whose load fails: unsupported extension, .json text that does
\* not parse, .svg text without a root svg element
LoadFails(f) ==
    \/ ToLower(f.ext) \notin {"json", "svg"}
    \/ ToLower(f.ext) = "json" /\ f.kind = "badjson"
    \/ ToLower(f.ext) = "svg" /\ f.kind = "text"

\* C1: a load-file call on a file whose extension is neither .json nor .svg,
\* in any letter case, is reported as an unsupported format and changes no
\* state at all: asset, engine instance, playback position, tracked file
\* name and size, export basename and recent files stay as they were, no
\* read is started, and an animated asset loaded before can still be played.
C1_UnsupportedFormatChangesNothing ==
    [][\A f \in files :
          (HandleFile(f) /\ ToLower(f.ext) \notin {"json", "svg"})
          => /\ out'.alert = UnsupportedMsg
             /\ out'.dl = NoDl
             /\ UNCHANGED <<Session, pending, raster, stale>>]_vars

\* the case of C1: a file was just refused while an animated asset is
\* loaded and playing
C1_Witness ==
    /\ out.alert = UnsupportedMsg
    /\ state.animationInstance.loaded
    /\ state.animationInstance.playing
    /\ state.originalFilename = state.animationInstance.file

\* C2: a load-file call on a .json file whose text does not parse is
\* reported and leaves every piece of the state loaded before unaltered:
\* neither the call nor the completion of its read changes the export
\* basename and extension, the byte size, or the tracked file name and size.
C2_InvalidJsonAltersNothing ==
    [][\A f \in files :
          ( /\ ToLower(f.ext) = "json" /\ f.kind = "badjson"
            /\ state.animationInstance.loaded
            /\ HandleFile(f) \/ ReaderOnload(f, TRUE) )
          => /\ UNCHANGED Session
             /\ ReaderOnload(f, TRUE) => out'.alert = InvalidJsonMsg]_vars

\* C3: every failed load is all-or-nothing: the asset active before it is
\* still active after it, its engine instance not destroyed and its content
\* still on the render surface, also when the file is a .svg whose text has
\* no root svg element.
C3_FailedLoadIsAllOrNothing ==
    [][\A f \in files :
          ( /\ LoadFails(f)
            /\ state.animationInstance.loaded
            /\ \/ HandleFile(f)
               \/ ReaderOnload(f, TRUE)
               \/ LoadFromJSONString(f, TRUE)
               \/ LoadFromSVGString(f) )
          => /\ state'.animationInstance = state.animationInstance
             /\ container' = container]_vars

\* C4: once the load of an animated asset has completed, the playback
\* position satisfies 0 <= currentFrame <= frameCount - 1 in every state,
\* under setFrame(n) with any n, slider input, play and pause and the
\* engine's frame notifications.
C4_CurrentFrameInRange ==
    state.animationInstance.loaded
        => state.currentFrame \in 0 .. state.animationInstance.T - 1

\* C5: after a second asset is loaded, no notification of the first,
\* torn-down engine instance changes the playback position, the frame count,
\* the playing flag or any UI element, even when it is delivered after the
\* teardown.
C5_NoDanglingNotification ==
    [][( /\ state.animationInstance.loaded
         /\ LateDOMLoaded \/ LateEnterFrame \/ LateComplete )
       => UNCHANGED <<state, pan, slider, spans, container>>]_vars

\* C6: when a second load-file starts while the read of the first is still
\* in flight, then after both reads have completed, in either order, the
\* active asset is the one requested last (the one whose name handleFile
\* recorded last), and rendered content, tracked name and size and export
\* basename all belong to that file.
C6_LastRequestedLoadWins ==
    (pending = {} /\ state.animationInstance.live)
        => /\ tracked.name.base = state.animationInstance.file
           /\ state.originalFilename = state.animationInstance.file
           /\ container.src = state.animationInstance.file

\* C7: after asset B is loaded following asset A, every derived field of
\* the active asset (intrinsic width and height, frame rate, frame count) is
\* derived from B alone, also when B declares no width and height or no
\* frame rate (Undef then).
C7_DerivedFieldsOfActiveAsset ==
    \A f \in files :
        /\ ( /\ state.animationInstance.loaded
             /\ state.animationData = f )
           => /\ state.width = f.w /\ state.height = f.h
              /\ state.fps = f.fr
              /\ state.totalFrames = f.T - 1
        /\ ( /\ ~state.animationInstance.live
             /\ container.kind = "svg"
             /\ container.src = f.base )
           => /\ state.width = (IF f.w # 0 /\ f.h # 0 THEN f.w ELSE f.aw)
              /\ state.height = (IF f.w # 0 /\ f.h # 0 THEN f.h ELSE f.ah)
              /\ state.fps = Undef
              /\ state.totalFrames = 0

\* the intrinsic width and height of the asset in file f: w and h of an
\* animation; the viewBox of a static document, else its width and height
IntrinsicW(f) == IF f.kind = "svg" /\ (f.w = 0 \/ f.h = 0) THEN f.aw ELSE f.w
IntrinsicH(f) == IF f.kind = "svg" /\ (f.w = 0 \/ f.h = 0) THEN f.ah ELSE f.h

\* C8: whatever the zoom mode, zoom percentage and pan offset, an exported
\* vector document has the width, height and viewBox of the intrinsic size
\* of the active asset, and a raster export has the intrinsic size times the
\* chosen scale (to the nearest pixel), once the asset's load has completed.
C8_ExportHasIntrinsicSize ==
    \A f \in files :
        ( /\ out.dl # NoDl
          /\ out.dl.src = f.base
          /\ state.animationInstance.live => state.animationInstance.loaded )
        => IF out.dl.via = "raster"
           THEN (IntrinsicW(f) # 0 /\ IntrinsicH(f) # 0)
                => /\ out.dl.w = Max(1, (IntrinsicW(f) * out.dl.scale + 2) \div 4)
                   /\ out.dl.h = Max(1, (IntrinsicH(f) * out.dl.scale + 2) \div 4)
           ELSE /\ out.dl.w = IntrinsicW(f) /\ out.dl.h = IntrinsicH(f)
                /\ out.dl.vbw = IntrinsicW(f) /\ out.dl.vbh = IntrinsicH(f)

\* C9: an export requested while the render surface holds no svg (before
\* any load, after clear, or while a load has not yet produced its markup)
\* fails and is reported, and no download of any format comes of it: none is
\* offered and no raster export is started.
C9_NothingToExport ==
    [][\A format \in Formats, scaleIdx \in RasterIdx, svgoThrows \in BOOLEAN :
          ( /\ DownloadCurrentFrame(format, scaleIdx, svgoThrows)
            /\ container.kind # "svg" )
          => /\ out'.alert = NoSvgMsg
             /\ out'.dl = NoDl
             /\ raster' = {}]_vars

\* the case of C9: the export was just refused while the engine instance of
\* a load exists and its markup does not yet
C9_Witness ==
    /\ out.alert = NoSvgMsg
    /\ state.animationInstance.live
    /\ ~state.animationInstance.markup
    /\ container.kind = "empty"

\* the parts of the session an export has no business with
AssetPlaybackViewport == <<state, tracked, pan, slider, spans, container>>

\* C10 as stated: when the optimization step or the rasterization step of
\* an export fails, the failure is caught and reported as an export failure,
\* no download is offered, and asset, playback and viewport state are as
\* before.
C10_ExportFailureReported ==
    [][( \/ DownloadCurrentFrame("svg", 0, TRUE) /\ container.kind = "svg"
         \/ \E job \in raster : RasterSettles(job, FALSE) )
       => /\ out'.alert = ExportErrorMsg
          /\ out'.dl = NoDl
          /\ UNCHANGED AssetPlaybackViewport]_vars

\* C10: when the rasterization step of an export fails, the failure is
\* caught and reported as an export failure and no download is offered; when
\* the optimization step fails, nothing is reported and the document, given
\* the minimal cleanup only, is offered as the download all the same.  In
\* both cases, and in every export, asset, playback and viewport state are
\* as before.
C10_ExportFailureHandled ==
    [][/\ \A job \in raster :
            RasterSettles(job, FALSE)
            => /\ out'.alert = ExportErrorMsg
               /\ out'.dl = NoDl
               /\ UNCHANGED <<Session, pending>>
       /\ (DownloadCurrentFrame("svg", 0, TRUE) /\ container.kind = "svg")
            => /\ out'.alert = ""
               /\ out'.dl.ext = "svg" /\ out'.dl.via = "cleaned"
               /\ out'.dl.src = container.src
       /\ \A format \in Formats, scaleIdx \in RasterIdx, svgoThrows \in BOOLEAN :
            DownloadCurrentFrame(format, scaleIdx, svgoThrows)
            => UNCHANGED AssetPlaybackViewport]_vars

\* the case of C10: a raster export of a loaded animation has just failed
C10_Witness ==
    /\ out.alert = ExportErrorMsg
    /\ out.dl = NoDl
    /\ raster = {}
    /\ container.kind = "svg"
    /\ state.animationInstance.loaded

\* the steps that set the zoom mode: the menu's fit entry, the menu's other
\* entries (the two steps and the numeric ones), a wheel gesture over a visual
StepToFit == ZoomSelect("fit")
StepToFixedByMenu == \E value \in ZoomValues \ {"fit"} : ZoomSelect(value)
StepToFixedByWheel ==
    container.kind = "svg" /\ \E delta \in ViewportDeltas : Wheel(delta)

PanIsZero == pan.x = QInt(0) /\ pan.y = QInt(0)

\* newScale / oldScale of the step taken
ScaleRatio ==
    LET oldScale == getCurrentScale(W)
        newScale == getCurrentScale(W')
    IN  QNorm(newScale[1] * oldScale[2], newScale[2] * oldScale[1])

C12_LoadResetsPan ==
    [][( \/ DOMLoaded
         \/ \E f \in files : f.kind = "svg" /\ LoadFromSVGString(f) )
       => PanIsZero']_vars

\* C13: whenever the zoom mode is fixed, the stored zoom percentage lies in
\* 2 .. 3200, whichever operation stored it: a numeric value of the zoom
\* menu, a zoom-in or zoom-out step, or a wheel gesture.
C13_FixedPercentInRange ==
    state.zoomMode = "fixed" => state.zoomPercent \in 2 .. 3200

\* the notch counts of a wheel gesture, and the deltaY of n notches
Notches == 1 .. 4
NotchDelta(n) == 100 * n

\* C14 (as stated): from every zoom percentage in 2 .. 3200 and for every
\* notch count N in 1 .. 4, a wheel zoom-in of N notches followed by a wheel
\* zoom-out of N notches gives the starting percentage back, up to the
\* rounding to an integer, also at or near a bound of the range.
C14_WheelReversalWithinRounding ==
    [][\A n \in Notches :
          (state.zoomMode = "fixed" /\ container.kind = "svg"
             /\ Wheel(-NotchDelta(n)))
          => Abs(wheelPercent(state'.zoomPercent, NotchDelta(n))
                   - state.zoomPercent) <= 1]_vars

\* C14: from every zoom percentage p in 2 .. 3200 and for every notch count N
\* in 1 .. 4, if p * 1.1^N rounds to at most 3200 then a wheel zoom-in of N
\* notches followed by a wheel zoom-out of N notches gives exactly p back;
\* otherwise the zoom-in stops at 3200 and the zoom-out gives the rounded
\* 3200 / 1.1^N, which is at most p.
C14_WheelReversalBelowClamp ==
    [][\A n \in Notches :
          (state.zoomMode = "fixed" /\ container.kind = "svg"
             /\ Wheel(-NotchDelta(n)))
          => LET p == state.zoomPercent
                 back == wheelPercent(state'.zoomPercent, NotchDelta(n))
             IN  IF RoundFrac(<<p * Pow(11, n), Pow(10, n)>>) <= 3200
                 THEN back = p
                 ELSE /\ state'.zoomPercent = 3200
                      /\ back = RoundFrac(<<3200 * Pow(10, n), Pow(11, n)>>)
                      /\ back <= p]_vars

\* the case of C14: wheel gestures have brought the percentage to the upper
\* bound of the range, the start from which a reversal falls short
C14_Witness ==
    /\ state.zoomMode = "fixed"
    /\ state.zoomPercent = 3200
    /\ container.kind = "svg"
    /\ state.animationInstance.loaded

\* C15: starting from the empty list, after any sequence of saveRecentFile and
\* touchRecent calls the list has at most MAX_ITEMS (20) entries and no two
\* of them have the same (name, size).
C15_RecentBoundedAndDistinct ==
    /\ Len(recent) <= MAX_ITEMS
    /\ \A i, j \in DOMAIN recent :
          (recent[i].name = recent[j].name /\ recent[i].size = recent[j].size)
          => i = j

\* the case of C15: the list is full, the save of one more file has pushed
\* the oldest entry out, and an entry has been touched after it was saved
C15_Witness ==
    /\ Len(recent) = MAX_ITEMS
    /\ recent[1].name = MaxNames
    /\ \E i \in DOMAIN recent : i > 1 /\ recent[i].lastOpened > recent[1].lastOpened

\* C16: after any sequence of file loads, reopenings of a cached entry and
\* touches, the recent-files list is ordered most recently touched first (a
\* touched or reopened entry is at the front, with its timestamp updated).
C16_MostRecentlyTouchedFirst ==
    \A i, j \in DOMAIN recent :
        i < j => recent[i].lastOpened >= recent[j].lastOpened

\* C17: play() changes nothing when no animated asset is loaded; otherwise,
\* if looping is off and the position is at (or past) the last frame, the
\* engine is sent to frame 0 before it is told to play, and in every case the
\* engine is playing and the controller's state is marked playing afterwards.
C17_Play ==
    [][Play =>
         IF ~state.animationInstance.live
         THEN UNCHANGED <<Session, pending, raster, clock, stale>>
         ELSE /\ state'.animationInstance.live
              /\ state'.animationInstance.playing
              /\ state'.isPlaying
              /\ (~state.isLooping /\ state.currentFrame >= state.totalFrames)
                    => state'.animationInstance.raw = 0]_vars

\* the case of C17: play() has just restarted a loaded animation that stood
\* on its last frame with looping off: the engine plays from frame 0 while
\* the controller still shows the last frame
C17_Witness ==
    /\ state.animationInstance.loaded
    /\ state.animationInstance.playing
    /\ state.isPlaying
    /\ ~state.isLooping
    /\ state.totalFrames > 0
    /\ state.currentFrame = state.totalFrames
    /\ state.animationInstance.raw = 0

\* a load: a file that was read is loaded, or an entry of the recent files
\* is reopened
LoadStep ==
    \E f \in files :
        \/ ReaderOnload(f, TRUE)
        \/ LoadFromJSONString(f, TRUE)
        \/ LoadFromSVGString(f)

\* C18: between one load and the next the timestamp of the recent-files entry
\* is updated at most once, however often the user plays, scrubs or exports:
\* a step other than a load that changes the list finds the session not yet
\* interacted with and marks it interacted with, and the mark stays until the
\* next load.
C18_TouchedOncePerLoad ==
    [][~LoadStep =>
         /\ recent' # recent => ~hasInteractedSinceLoad /\ hasInteractedSinceLoad'
         /\ hasInteractedSinceLoad => hasInteractedSinceLoad']_vars

\* the case of C18: the entry of the file shown was touched in this session,
\* the clock has moved on since, and the animation is playing
C18_Witness ==
    /\ hasInteractedSinceLoad
    /\ state.isPlaying
    /\ \E i \in DOMAIN recent :
          /\ recent[i].name = [base |-> state.originalFilename,
                               ext |-> state.originalFileExt]
          /\ recent[i].size = state.fileSizeBytes
          /\ recent[i].lastOpened < clock

\* a static vector document is the active asset: it is in the container and
\* there is no engine instance
StaticActive == container.kind = "svg" /\ ~state.animationInstance.live

\* C19 (as stated): while a static vector asset is active, play(), pause(),
\* setFrame(n) for any n and setLoop(b) are no-ops: position, playing flag,
\* loop flag and every other controller state stay as they are and no engine
\* call is made.
C19_StaticControlsAreNoOps ==
    [][(StaticActive
          /\ ( \/ Play
               \/ Pause
               \/ \E n \in FrameArgs : SetFrame(n)
               \/ \E b \in BOOLEAN : SetLoop(b) ))
       => UNCHANGED <<Session, pending, raster, clock, stale>>]_vars

\* C19: while a static vector asset is active, play(), pause() and
\* setFrame(n) for any n are no-ops, and setLoop(b) sets the controller's
\* loop flag to b and changes nothing else; none of them makes an engine
\* call.
C19_StaticControls ==
    [][/\ (StaticActive
            /\ ( \/ Play
                 \/ Pause
                 \/ \E n \in FrameArgs : SetFrame(n) ))
          => UNCHANGED <<Session, pending, raster, clock, stale>>
       /\ \A b \in BOOLEAN :
            (StaticActive /\ SetLoop(b))
            => /\ state' = [state EXCEPT !.isLooping = b]
               /\ UNCHANGED <<tracked, pan, hasInteractedSinceLoad, slider,
                              spans, container, recent, pending, raster,
                              clock, stale>>]_vars

\* the case of C19: a static vector document is shown and looping has been
\* switched off
C19_Witness ==
    /\ StaticActive
    /\ container.visible
    /\ ~state.isLooping

\* C20: whenever an engine instance exists and its load has completed, the
\* loop flag of the instance equals the loop flag of the controller, and
\* setLoop(b) sets both to b in one step, whether the instance is paused or
\* playing, without stopping or starting it.
C20_LoopFlagsAgree ==
    [][/\ (state'.animationInstance.live /\ state'.animationInstance.loaded)
            => state'.animationInstance.loop = state'.isLooping
       /\ \A b \in BOOLEAN :
            (SetLoop(b) /\ state.animationInstance.live)
            => /\ state'.isLooping = b
               /\ state'.animationInstance.loop = b
               /\ state'.animationInstance.playing
                    = state.animationInstance.playing]_vars

\* the case of C20: looping has been switched off on a loaded animation that
\* is playing
C20_Witness ==
    /\ state.animationInstance.loaded
    /\ state.animationInstance.playing
    /\ ~state.isLooping
    /\ ~state.animationInstance.loop
    /\ state.animationInstance.raw > 0

\* a stored text that no value of the key gives
Malformed(key, text) ==
    IF key \in BooleanKeys THEN text \notin {"true", "false"}
    ELSE text \notin ExportFormats

\* C21: getPreference(key) returns the declared default whenever the stored
\* value is absent or malformed: nothing stored under the key, a boolean key
\* whose stored text is neither "true" nor "false", an enumerated key whose
\* stored text is not one of its allowed values.
C21_DefaultWhenAbsentOrMalformed ==
    \A key \in PrefKeys :
        (\/ prefs.items[key] = {}
         \/ \E text \in prefs.items[key] : Malformed(key, text))
        => getPreference(prefs, key) = DEFAULT_PREFERENCES(key)

\* the svg in the container has a size the frame outline can take
OutlineSized(st, box) ==
    /\ st.width # 0 \/ box.vbw # 0
    /\ st.height # 0 \/ box.vbh # 0

\* C22: while the store rejects every write, each user change still takes
\* effect in memory: a switch of the preview card changes the overlay state
\* and the overlay on the render surface, a file that is read becomes the
\* active asset although it could not be registered in the recent files, and
\* nothing is reported to the user; the store keeps what it held.
C22_ChangesSurviveRejectedWrites ==
    [][prefs.mode # "ok" =>
        /\ \A checked \in BOOLEAN :
              IgnoreOpacityChange(checked)
              => /\ state'.ignoreOpacity = checked
                 /\ container.kind = "svg" => container'.opacityStyle = checked
                 /\ prefs' = prefs /\ out'.alert = ""
        /\ \A checked \in BOOLEAN :
              FrameToggleChange(checked)
              => /\ frameOutlineOn' = checked
                 /\ (container.kind = "svg" /\ OutlineSized(state, container))
                      => container'.rect.on = checked
                 /\ prefs' = prefs /\ out'.alert = ""
        /\ \A f \in files :
              (f \in pending /\ ReaderOnload(f, TRUE))
              => /\ container'.kind = "svg" /\ container'.src = f.base
                 /\ state'.animationInstance.live = (f.kind = "lottie")
                 /\ f.kind = "lottie" => state'.animationInstance.file = f.base
                 /\ recent' = recent /\ prefs' = prefs
                 /\ out'.alert = ""]_vars

\* the case of C22: under a store that rejects writes a file that was read
\* is shown with both overlays switched on, and neither the preferences nor
\* the recent files hold anything
C22_Witness ==
    /\ prefs.mode # "ok"
    /\ prefs.items = NoItems
    /\ recent = <<>>
    /\ container.kind = "svg" /\ container.visible
    /\ container.opacityStyle /\ state.ignoreOpacity
    /\ container.rect.on /\ frameOutlineOn

\* C23: the file offered by an export is named {basename}-{currentFrame}-frame.{ext}
\* exactly when an animated asset is active and {basename}.{ext} exactly when a
\* static one is, basename being the name of the loaded file without its
\* .json / .svg, currentFrame the controller's position when the export is
\* asked for, and ext svg, png, jpg for the formats svg, png, jpeg.
C23_DownloadName ==
    [][/\ \A format \in Formats :
            (DownloadCurrentFrame(format, 0, FALSE) /\ container.kind = "svg")
            => LET animated == state.animationInstance.live
                   basename == IF animated THEN state.animationInstance.file
                               ELSE container.src
                   named(dl) ==
                        /\ dl.base = basename
                        /\ dl.frame = IF animated THEN state.currentFrame
                                      ELSE -1
               IN  IF format = "svg"
                   THEN named(out'.dl) /\ out'.dl.ext = "svg"
                   ELSE /\ raster' # raster
                        /\ \A job \in raster' \ raster : named(job)
       /\ \A job \in raster :
            RasterSettles(job, TRUE)
            => /\ out'.dl.base = job.base
               /\ out'.dl.frame = job.frame
               /\ out'.dl.ext = IF job.format = "png" THEN "png" ELSE "jpg"]_vars

\* C24: after a static vector document has been loaded, the play button is
\* disabled.
C24_StaticDisablesPlay ==
    [][\A f \in files :
        ((LoadFromSVGString(f) \/ ReaderOnload(f, TRUE)) /\ StaticActive')
        => buttons'.playBtn.disabled]_vars

\* the state clearAnimation leaves: no engine instance, an empty container,
\* no file tracked and none named
Cleared ==
    /\ state.animationInstance = NoInst
    /\ instances = 0
    /\ container.kind = "empty"
    /\ tracked = [name |-> NoName, size |-> Undef]
    /\ state.originalFilename = ""

\* C25: after clear() no asset is active: the engine instance is destroyed
\* and released, the render surface is empty, isSVGLoaded() is false,
\* isCurrentFile(name, size) is false for the name and size of every file;
\* from there play, pause and setFrame change nothing and an export request
\* fails without a download.
C25_ClearLeavesNothingActive ==
    [][/\ ClearCurrentFile
            => /\ Cleared'
               /\ state.animationInstance.live => out'.calls = <<"destroy">>
               /\ ~isSVGLoaded(W')
               /\ \A f \in Files, g \in Files :
                        ~isCurrentFile(W', FullName(f), g.size)
       /\ (Cleared /\ (Play \/ Pause \/ \E n \in FrameArgs : SetFrame(n)))
            => /\ Cleared' /\ Session' = Session
               /\ buttons' = buttons /\ label' = label
               /\ out' = NoOut
       /\ \A format \in Formats :
            (Cleared /\ DownloadCurrentFrame(format, 0, FALSE))
            => /\ Cleared' /\ Session' = Session
               /\ raster' = raster
               /\ out'.dl = NoDl /\ out'.alert = NoSvgMsg]_vars

\* the case of C25: an animation was opened and worked with, then cleared,
\* and an export was asked for afterwards
C25_Witness ==
    /\ Cleared
    /\ hasInteractedSinceLoad
    /\ recent # <<>>
    /\ out.alert = NoSvgMsg

\* C26: isSVGLoaded() is true only where a static vector asset is active; it
\* is false while nothing has been loaded successfully, also after a .json
\* file failed to parse on the empty page.
C26_SvgLoadedOnlyWhenStatic == isSVGLoaded(W) => StaticActive

\* a step that loads a file: a read that completes, an entry reopened
AnimatedLoadStep ==
    \E f \in files : \/ ReaderOnload(f, TRUE) /\ ToLower(f.ext) = "json"
                     \/ LoadFromJSONString(f, TRUE)
StaticLoadStep ==
    \E f \in files : \/ ReaderOnload(f, TRUE) /\ ToLower(f.ext) = "svg"
                     \/ LoadFromSVGString(f)

\* C27: in every reachable state at most one engine instance is live, the
\* one the controller refers to; within a load the previous instance is
\* destroyed before the new one is made, on the animated path, and destroyed
\* on the static path, which makes none.
C27_OneEngineInstance ==
    [][/\ instances <= 1 /\ instances' <= 1
       /\ (instances' = 1) = state'.animationInstance.live
       /\ out'.calls \in {<<>>, <<"destroy">>, <<"loadAnimation">>,
                          <<"destroy", "loadAnimation">>}
       /\ (AnimatedLoadStep /\ state'.animationInstance.live)
            => out'.calls = IF instances = 1
                            THEN <<"destroy", "loadAnimation">>
                            ELSE <<"loadAnimation">>
       /\ StaticLoadStep
            => /\ instances' = 0
               /\ out'.calls = IF instances = 1 THEN <<"destroy">>
                               ELSE <<>>]_vars

\* the case of C27: an animation has just been loaded over another one
C27_Witness ==
    /\ out.calls = <<"destroy", "loadAnimation">>
    /\ state.animationInstance.live
    /\ instances = 1

\* C28: every new load attempt and every clear tears down the engine
\* instance that was active before it, whether or not the new load succeeds.
C28_LoadAttemptTearsDown ==
    [][\A f \in files :
        ((\/ f \in pending /\ ReaderOnload(f, TRUE)
          \/ LoadFromJSONString(f, TRUE)
          \/ LoadFromSVGString(f)
          \/ ClearCurrentFile) /\ state.animationInstance.live)
        => "destroy" \in {out'.calls[i] : i \in DOMAIN out'.calls}]_vars

\* neither the overlay rect nor the ignore-opacity style element nor an
\* inline style is in the document
Bare(doc) == ~doc.overlay /\ ~doc.opacityStyle /\ ~doc.styled

\* C29: whatever the frame-outline switch, the ignore-opacity switch and the
\* viewport are, the document an export produces contains neither the
\* overlay rect nor the ignore-opacity style nor the positioning / scaling
\* style of the preview, and the live surface keeps all of them.
C29_ExportWithoutPreviewParts ==
    [][/\ \A format \in Formats :
            (DownloadCurrentFrame(format, 0, FALSE) /\ container.kind = "svg")
            => /\ container' = container
               /\ IF format = "svg"
                  THEN out'.dl # NoDl /\ Bare(out'.dl)
                  ELSE /\ raster' # raster
                       /\ \A job \in raster' \ raster : Bare(job.doc)
       /\ \A job \in raster :
            RasterSettles(job, TRUE)
            => /\ container' = container
               /\ out'.dl # NoDl /\ Bare(out'.dl)]_vars

\* the case of C29: a file has been exported from a surface that shows the
\* frame outline and the ignore-opacity style, zoomed to 200% and dragged
C29_Witness ==
    /\ out.dl # NoDl
    /\ container.rect.on /\ container.opacityStyle
    /\ state.zoomMode = "fixed" /\ container.style.scale = <<2, 1>>
    /\ container.style.x # QInt(0)

\* a step after which the label is to be right: the zoom menu or the wheel
\* changed mode or percentage, the window was resized in fit mode, the label
\* refresh of an animated load ran, a static document was loaded
LabelStep ==
    \/ \E value \in ZoomValues : ZoomSelect(value)
    \/ \E delta \in ViewportDeltas : Wheel(delta)
    \/ \E box \in Layouts : Resize(box.w, box.h) /\ state.zoomMode = "fit"
    \/ InitializeLabel
    \/ StaticLoadStep

\* C30: after every zoom-mode change, percentage change and fit
\* recomputation (a resize in fit mode, each completed load of an animated or
\* static asset) the percent label shows the rounded integer percentage of
\* the scale actually applied to the visual.
C30_LabelShowsAppliedScale ==
    [][(LabelStep /\ container'.kind = "svg")
        => label' = RoundFrac(<<100 * container'.style.scale[1],
                                container'.style.scale[2]>>)]_vars

\* a transform has been put on the svg: a scale is in effect on the visual
Scaled(box) == box.kind = "svg" /\ box.style.scale # <<0, 1>>

\* C31: a wheel gesture over the render area with content present sets the
\* pan offset on each axis to (oldPan + centeringShift) * (newScale /
\* oldScale) - centeringShift, oldScale and newScale being the scales in
\* effect on the visual before and after the gesture.
C31_WheelPanFollowsAppliedScale ==
    [][\A delta \in WheelDeltas :
        (Wheel(delta) /\ Scaled(container))
        => LET oldScale == container.style.scale
               newScale == container'.style.scale
               ratio == QNorm(newScale[1] * oldScale[2],
                              newScale[2] * oldScale[1])
           IN  /\ pan'.x = QSub(QMul(ratio, QAdd(pan.x, xShift)), xShift)
               /\ pan'.y = QSub(QMul(ratio, QAdd(pan.y, yShift)), yShift)
               /\ state'.zoomMode = "fixed"]_vars

\* C32: whenever the render surface is revealed with content, the
\* frame-outline overlay is in the svg exactly when the frame-outline toggle is
\* on (and the intrinsic dimensions are known), and the ignore-opacity style
\* is in the svg exactly when the ignore-opacity toggle is on.
C32_OverlaysFollowToggles ==
    (container.visible /\ container.kind = "svg")
    => /\ container.rect.on = (frameOutlineOn /\ OutlineSized(state, container))
       /\ container.opacityStyle = state.ignoreOpacity

\* a revealed animation past its first frame with the outline and the
\* ignore-opacity style in its svg
C32_Witness ==
    /\ container.visible /\ container.kind = "svg"
    /\ state.animationInstance.live /\ state.currentFrame = 1
    /\ frameOutlineOn /\ container.rect.on
    /\ state.ignoreOpacity /\ container.opacityStyle

\* an operation that changes the scale of the viewport
ScaleStep ==
    \/ \E value \in ZoomValues : ZoomSelect(value)
    \/ \E delta \in ViewportDeltas : Wheel(delta)
    \/ \E box \in Layouts : Resize(box.w, box.h)
    \/ DOMLoaded
    \/ LoadFromSVGString(fS)

\* C33: whenever the frame-outline overlay exists, after every operation that
\* changes the viewport scale (zoom-menu choice, wheel, switch to fit, resize
\* in fit mode, load) its stroke width is 2 divided by the scale currently
\* applied to the visual (its dash and gap, 10 and 6 divided by that scale,
\* are set from the same scale in the same statement).
C33_StrokeFollowsAppliedScale ==
    [][(ScaleStep /\ Scaled(container') /\ container'.rect.on)
        => container'.rect.stroke =
             Frac(2 * container'.style.scale[2], container'.style.scale[1])]_vars

\* the viewport transform and the overlays are on the svg in the container
Dressed(st, box, outlineOn) ==
    /\ Scaled(box)
    /\ box.rect.on = (outlineOn /\ OutlineSized(st, box))
    /\ box.opacityStyle = st.ignoreOpacity

\* a load of the container's content
SurfaceLoadStep ==
    \/ \E markup \in BOOLEAN : LoadFromJSONString(fA, markup)
    \/ LoadFromSVGString(fS)

\* C34: during each load the surface stays hidden from the start of the load
\* until the container holds its first markup; it is revealed only with the
\* viewport transform and the overlays applied to that markup; a
\* content-insertion watch reveals at the first markup and is disconnected
\* with it; every load the engine completes eventually reveals the surface.
C34_HiddenUntilDressed ==
    /\ [](state.animationInstance.live /\ container.kind # "svg"
            => ~container.visible)
    /\ [](container.visible /\ container.kind = "svg"
            => Dressed(state, container, frameOutlineOn))
    /\ [](container.watching => container.kind # "svg")
    /\ [][((SurfaceLoadStep /\ state'.animationInstance.live)
             => (~container'.visible \/ container.watching))
          /\ ((container.watching /\ container'.kind = "svg")
             => (container'.visible /\ ~container'.watching))]_vars
    /\ (state.animationInstance.live /\ ~container.visible)
          ~> (container.visible \/ ~state.animationInstance.live)

\* an animation revealed by the watch its DOMLoaded left: the markup came
\* after DOMLoaded
C34_Witness ==
    /\ state.animationInstance.live /\ state.animationInstance.loaded
    /\ container.visible /\ container.kind = "svg" /\ ~container.watching
    /\ Scaled(container) /\ frameOutlineOn /\ container.rect.on

\* C35: when the optimization collaborator fails internally during a vector
\* export, the error is not propagated: nothing is reported, and the document
\* of the container, cleaned by the minimal manual cleanup, is offered as the
\* download under the name of the export.
C35_OptimizerFailureFallsBack ==
    [][(DownloadCurrentFrame("svg", 0, TRUE) /\ container.kind = "svg")
        => /\ out'.alert = ""
           /\ out'.dl.via = "cleaned"
           /\ out'.dl.ext = "svg"
           /\ out'.dl.src = container.src
           /\ out'.dl.frame = (IF state.animationInstance.live
                               THEN state.currentFrame ELSE -1)
           /\ container' = container]_vars

\* frame 1 of a.json offered after svgo threw
C35_Witness ==
    /\ out.dl.via = "cleaned" /\ out.dl.src = "a" /\ out.dl.frame = 1
    /\ out.alert = ""

\* C36: whenever the controller's playing flag is true the active engine
\* instance is actually playing: no sequence of play, pause, setFrame, slider
\* scrubbing, setLoop, load and complete notifications reaches a state with the
\* flag true and the engine stopped.
C36_PlayingFlagMeansEnginePlays ==
    state.isPlaying
    => state.animationInstance.live /\ state.animationInstance.playing

\* a load is through: the animation reports DOMLoaded, or a static document
\* has been put into the container
LoadDone == DOMLoaded \/ (LoadStep /\ StaticActive')

\* play, scrub or export
Interaction ==
    \/ Play
    \/ \E v \in SliderTries : SliderInput(v)
    \/ DownloadCurrentFrame("svg", 0, FALSE)

\* the recent-files entry of the asset shown carries the time `now`
EntryTouched(st, items, now) ==
    \E i \in DOMAIN items :
        /\ items[i].name = [base |-> st.originalFilename,
                             ext |-> st.originalFileExt]
        /\ items[i].size = st.fileSizeBytes
        /\ items[i].lastOpened = now

\* C37: for each successful load, the first user interaction after it (play,
\* scrub or export) updates the last-opened timestamp of that asset's recent
\* entry: every load leaves the interacted-since-load guard unset (it re-arms
\* it and does not consume it), and an interaction that finds it unset stamps
\* the entry of the asset shown with the current time.
C37_FirstInteractionTouches ==
    [][/\ LoadDone => ~hasInteractedSinceLoad'
       /\ (Interaction /\ ~hasInteractedSinceLoad
              /\ \E t \in 0 .. MaxTicks : EntryTouched(state, recent, t))
            => EntryTouched(state', recent', clock)]_vars

\* the handlers that move the playback position or replace the asset
PositionStep ==
    \/ DOMLoaded
    \/ LoadFromSVGString(fS)
    \/ \E n \in FrameArgs : SetFrame(n)
    \/ \E v \in SliderTries : SliderInput(v)
    \/ \E raw \in RawTries : EnterFrame(raw)
    \/ ClearCurrentFile

\* C38: after every handler finishes (load completion, setFrame, slider
\* input, engine frame advance, clear) the frame label and the slider value
\* both equal the controller's playback position, and the slider maximum
\* equals the last frame index of the active asset (state.totalFrames, 0
\* for a static document), when there is one.
C38_FrameControlsAgree ==
    [][PositionStep
        => /\ spans'.current = state'.currentFrame
           /\ slider'.value = state'.currentFrame
           /\ (state'.animationInstance.loaded \/ StaticActive')
                => slider'.max = state'.totalFrames]_vars

\* C39: for every card id and boolean b, setCardCollapsed(id, b) followed by
\* getCardCollapsed(id) returns b (the store taking the write), and the flag
\* of every other card is as it was.
C39_CardFlagRoundTrip ==
    [][\A cardId \in Cards, collapsed \in BOOLEAN :
        (SetCardCollapsed(cardId, collapsed) /\ prefs.mode = "ok")
        => /\ getCardCollapsed(prefs', cardId) = collapsed
           /\ \A other \in Cards \ {cardId} :
                 getCardCollapsed(prefs', other) = getCardCollapsed(prefs, other)]_vars

\* C40: after reinitialize() has been called any number of times over the
\* same page elements, each single user event still has its single effect:
\* one click on the play button of a loaded animation toggles the playing
\* flag once, and one wheel notch over the content changes the zoom
\* percentage by one step, to what a single wheel listener computes.
C40_OneEffectPerEvent ==
    [][/\ (PlayClick /\ state.animationInstance.loaded)
            => state'.isPlaying = ~state.isPlaying
       /\ \A delta \in {-100, 100} :
            (Wheel(delta) /\ container.kind = "svg")
            => state'.zoomPercent = onWheel(W, delta).state.zoomPercent]_vars

====
